---- MODULE Spec2Model ----
(***************************************************************************)
(* Marker-based template merge engine of the Bug Bounty Scope Builder      *)
(* (scope.js, rewards.js, script.js).                                      *)
(*                                                                         *)
(* A document (an HTML string) is modelled as a sequence of tokens.  A     *)
(* token is one of the pieces the regular expressions of the code tell     *)
(* apart: a marker ("--START IN-SCOPE--"), a paragraph tag ("<p>",         *)
(* "</p>"), a line break ("<br>"), one whitespace character (" ", "\n"),   *)
(* or an opaque piece of text.  Opaque text never contains a marker, a     *)
(* tag or a "$" replacement pattern of String.prototype.replace.           *)
(***************************************************************************)
EXTENDS Integers, Sequences, FiniteSets, TLC

VARIABLES
    \* ---- marker engine exercised on its own (pure functions) ----
    mDoc,       \* existingHTML / html argument
    mName,      \* sectionName argument
    mBlock,     \* replacementBlock argument
    mPc,        \* "input" | "replaced" | "replaced2" | "extracted" | "extractedInput" | "built" | "assets" | "mobile" | "api"
                \* | "template" | "threw"
    mResult,    \* replaceBlockByMarker(mDoc, mName, mBlock)
    mResult2,   \* replaceBlockByMarker(mResult, mName, mBlock)
    mExtract,   \* extractBlockByMarker(mResult, mName)
    mWarnings,  \* number of console.warn calls made by replaceBlockByMarker so far
    \* ---- the application ----
    scopeText,      \* window.scopeText: the template, [isArray, blocks]
    rewards,        \* rewards.json: [present, tiers, definitions, examples]
    config,         \* window.config
    storedApiData,  \* window.storedApiData: [mobileDetails, apiDetails, partialScopeHTML, finalScopeHTML]
    localStorage,   \* the keys the assembler reads and writes; "" and <<>> stand for null
    websiteUrl,     \* value of the #websiteUrl input
    currentStepIndex, \* navigation.js: the page shown, BUILDER or FINAL
    edits,          \* number of user edits made in the final editor so far
    last,           \* the assembler calls made by the latest handler (history variable)
    \* ---- the background loader and the domain input ----
    apiLoadState,   \* window.__apiLoadState: [seq]; its controllers are those of load seq
    loads,          \* the calls of loadApiDataInBackground made so far, by mySeq
    apiCache,       \* localStorage apiData_<domain>, by domain
    typingTimeout,  \* the debounce timers of the input listeners are armed
    resolving,      \* domains whose handleDomainInput awaits checkDomainResolvable
    isProcessing,   \* script.js: a handleDomainInput is loading
    pendingDomain,  \* script.js: domain queued while processing ("" for null)
    lastProcessedValue  \* script.js: domain processed last ("" for null)

markerVars == <<mDoc, mName, mBlock, mPc, mResult, mResult2, mExtract, mWarnings>>

loadVars == <<apiLoadState, loads, apiCache, typingTimeout, resolving,
              isProcessing, pendingDomain, lastProcessedValue>>

appVars == <<scopeText, rewards, config, storedApiData, localStorage,
             websiteUrl, currentStepIndex, edits, last, loadVars>>

vars == <<mDoc, mName, mBlock, mPc, mResult, mResult2, mExtract, mWarnings,
          scopeText, rewards, config, storedApiData, localStorage,
          websiteUrl, currentStepIndex, edits, last,
          apiLoadState, loads, apiCache, typingTimeout, resolving,
          isProcessing, pendingDomain, lastProcessedValue>>

-----------------------------------------------------------------------------
(* Bounds *)

MaxDocLen == 4      \* longest document the marker engine is exercised on
MaxEdits  == 1      \* user edits made in the final editor
MaxAppended == 2    \* rewards blocks appended to one document
MaxTiers  == 2      \* tiers of the reward data the rewards builder is exercised on
MaxLoads  == 3      \* domains being handled or loaded, loads made so far included
MaxBlocks == 3      \* entries of the templates the template loader is exercised on

-----------------------------------------------------------------------------
(* Tokens *)

P_OPEN  == "<p>"
P_CLOSE == "</p>"
BR      == "<br>"

\* what \s matches
WS == {" ", "\n"}

\* String.prototype.toUpperCase on the strings whose case matters here
ToUpperCase(s) ==
    CASE s = "in-scope"            -> "IN-SCOPE"
      [] s = "rewards"             -> "REWARDS"
      [] s = "--START in-scope--"  -> "--START IN-SCOPE--"
      [] s = "--END in-scope--"    -> "--END IN-SCOPE--"
      [] s = "--START rewards--"   -> "--START REWARDS--"
      [] s = "--END rewards--"     -> "--END REWARDS--"
      [] OTHER                     -> s

\* a regular expression literal matched under the 'i' flag
MatchesIgnoreCase(tok, literal) == ToUpperCase(tok) = ToUpperCase(literal)

\* String.prototype.includes: case-sensitive
Includes(html, literal) == \E i \in 1..Len(html) : html[i] = literal

\* String.prototype.trim
RECURSIVE TrimStart(_)
TrimStart(s) ==
    IF s # <<>> /\ Head(s) \in WS THEN TrimStart(Tail(s)) ELSE s

RECURSIVE TrimEnd(_)
TrimEnd(s) ==
    IF s # <<>> /\ s[Len(s)] \in WS THEN TrimEnd(SubSeq(s, 1, Len(s) - 1)) ELSE s

Trim(s) == TrimEnd(TrimStart(s))

\* index of the first token at or after i that is not in S (Len+1 if none):
\* what a greedy  S*  consumes from position i
SkipWhile(html, i, S) ==
    CHOOSE k \in i..(Len(html) + 1) :
        /\ \A m \in i..(k - 1) : html[m] \in S
        /\ (k = Len(html) + 1 \/ html[k] \notin S)

\* the element of a one-element set.  A const declaration of the source,
\*     const x = e; ... x ... x ...
\* is written  ValueOf({ (... x ... x ...) : x \in {e} }),  so that e is
\* computed once, as in the source, however often x is used
ValueOf(S) == CHOOSE v \in S : TRUE

-----------------------------------------------------------------------------
(* Marker engine *)

StartMarker(sectionName) == "--START " \o ToUpperCase(sectionName) \o "--"
EndMarker(sectionName)   == "--END " \o ToUpperCase(sectionName) \o "--"

IsMarkerOf(tok, sectionName) ==
    \/ MatchesIgnoreCase(tok, StartMarker(sectionName))
    \/ MatchesIgnoreCase(tok, EndMarker(sectionName))

\* some END marker lies after position i
HasEndAfter(html, i, end) ==
    \E j \in (i + 1)..Len(html) : MatchesIgnoreCase(html[j], end)

\* nearest END marker after position i (the lazy [\s\S]*?)
NearestEnd(html, i, end) ==
    CHOOSE j \in (i + 1)..Len(html) :
        /\ MatchesIgnoreCase(html[j], end)
        /\ \A m \in (i + 1)..(j - 1) : ~MatchesIgnoreCase(html[m], end)

\* START[\s\S]*?END matches with its START at position i
SpanAt(html, i, start, end) ==
    /\ i \in 1..Len(html)
    /\ MatchesIgnoreCase(html[i], start)
    /\ HasEndAfter(html, i, end)

\* the pattern of replaceBlockByMarker matches beginning at position i:
\* (?:<p>)? START [\s\S]*? END \s*(?:<br\s*\/?>\s*)* (?:</p>)?
PatternAt(html, i, start, end) ==
    \/ html[i] = P_OPEN /\ SpanAt(html, i + 1, start, end)
    \/ SpanAt(html, i, start, end)

PatternTest(html, start, end) ==
    \E i \in 1..Len(html) : PatternAt(html, i, start, end)

\* [from, to]: first and last token of the leftmost match of the pattern
PatternMatch(html, start, end) ==
    LET from    == CHOOSE i \in 1..Len(html) :
                      /\ PatternAt(html, i, start, end)
                      /\ \A m \in 1..(i - 1) : ~PatternAt(html, m, start, end)
        \* the optional <p> is greedy: taken whenever START follows it
        startAt == IF html[from] = P_OPEN THEN from + 1 ELSE from
        endAt   == NearestEnd(html, startAt, end)
        afterWs == SkipWhile(html, endAt + 1, WS)                \* \s*
        afterBr == IF afterWs <= Len(html) /\ html[afterWs] = BR  \* (?:<br\s*\/?>\s*)*
                   THEN SkipWhile(html, afterWs, WS \cup {BR})
                   ELSE afterWs
        afterP  == IF afterBr <= Len(html) /\ html[afterBr] = P_CLOSE  \* (?:</p>)?
                   THEN afterBr + 1
                   ELSE afterBr
    IN  [from |-> from, to |-> afterP - 1]

\* a splice that leaves the last matched token in place
SpliceKeepsLast(html, from, to, block) ==
    SubSeq(html, 1, from - 1) \o block \o SubSeq(html, to, Len(html))

\* a splice that also drops what precedes the match
SpliceFromStart(html, from, to, block) ==
    block \o SubSeq(html, to + 1, Len(html))

\* String.prototype.replace(pattern, block) with a pattern without the g flag:
\* the first match [from, to] is replaced
Splice(html, from, to, block) ==
    SubSeq(html, 1, from - 1) \o block \o SubSeq(html, to + 1, Len(html))

\* replaceBlockByMarker calls console.warn('Missing markers for ...')
replaceWarns(existingHTML, sectionName) ==
    ~PatternTest(existingHTML, StartMarker(sectionName), EndMarker(sectionName))

\* a replacement whose pattern has no optional closing </p>
replaceLeavesWrapper(existingHTML, sectionName, replacementBlock) ==
    LET start == StartMarker(sectionName)
        end   == EndMarker(sectionName)
    IN  IF ~PatternTest(existingHTML, start, end)
        THEN existingHTML
        ELSE LET m == PatternMatch(existingHTML, start, end)
             IN  Splice(existingHTML, m.from,
                        IF existingHTML[m.to] = P_CLOSE THEN m.to - 1 ELSE m.to,
                        replacementBlock)

\* a replacement that appends the block when the region is missing
replaceOrAppend(existingHTML, sectionName, replacementBlock) ==
    LET start == StartMarker(sectionName)
        end   == EndMarker(sectionName)
    IN  IF ~PatternTest(existingHTML, start, end)
        THEN existingHTML \o replacementBlock
        ELSE LET m == PatternMatch(existingHTML, start, end)
             IN  Splice(existingHTML, m.from, m.to, replacementBlock)

replaceBlockByMarker(existingHTML, sectionName, replacementBlock) ==
    LET start == StartMarker(sectionName)
        end   == EndMarker(sectionName)
    IN  IF ~PatternTest(existingHTML, start, end)
        THEN existingHTML
        ELSE LET m == PatternMatch(existingHTML, start, end)
             IN  Splice(existingHTML, m.from, m.to, replacementBlock)

\* [from, to] of the first match of  START[\s\S]*?END  under the 'i' flag
SpanMatch(html, start, end) ==
    LET from == CHOOSE i \in 1..Len(html) :
                    /\ SpanAt(html, i, start, end)
                    /\ \A m \in 1..(i - 1) : ~SpanAt(html, m, start, end)
    IN  [from |-> from, to |-> NearestEnd(html, from, end)]

SpanTest(html, start, end) == \E i \in 1..Len(html) : SpanAt(html, i, start, end)

\* an extraction whose interior is greedy: it runs to the last END marker
extractToLastEnd(html, sectionName) ==
    LET start == StartMarker(sectionName)
        end   == EndMarker(sectionName)
    IN  IF SpanTest(html, start, end)
        THEN LET m == SpanMatch(html, start, end)
                 lastEnd == CHOOSE j \in 1..Len(html) :
                               /\ MatchesIgnoreCase(html[j], end)
                               /\ \A k \in (j + 1)..Len(html) : ~MatchesIgnoreCase(html[k], end)
             IN  SubSeq(html, m.from, lastEnd)
        ELSE <<>>

\* an extraction that stops short of the END marker
extractWithoutEnd(html, sectionName) ==
    LET start == StartMarker(sectionName)
        end   == EndMarker(sectionName)
    IN  IF SpanTest(html, start, end)
        THEN LET m == SpanMatch(html, start, end)
             IN  SubSeq(html, m.from, m.to - 1)
        ELSE <<>>

extractBlockByMarker(html, sectionName) ==
    LET start == StartMarker(sectionName)
        end   == EndMarker(sectionName)
    IN  IF SpanTest(html, start, end)
        THEN LET m == SpanMatch(html, start, end)
             IN  SubSeq(html, m.from, m.to)
        ELSE <<>>

-----------------------------------------------------------------------------
(* Template loader *)

\* flatten a sequence of token sequences
RECURSIVE Concat(_)
Concat(seqs) ==
    IF seqs = <<>> THEN <<>> ELSE Head(seqs) \o Concat(Tail(seqs))

\* Array.prototype.join: the pieces with sep between consecutive ones
RECURSIVE Join(_, _)
Join(seqs, sep) ==
    IF seqs = <<>> THEN <<>>
    ELSE IF Len(seqs) = 1 THEN seqs[1]
    ELSE seqs[1] \o sep \o Join(Tail(seqs), sep)

\* a list rendered with its first item only
RenderBlockFirstItem(block) ==
    IF block.type = "paragraph"
    THEN <<P_OPEN>> \o block.text \o <<P_CLOSE>>
    ELSE IF block.type = "list" /\ block.itemsIsArray
    THEN <<"<ul>">>
         \o (IF block.items = <<>> THEN <<>> ELSE <<"<li>", block.items[1], "</li>">>)
         \o <<"</ul>">>
    ELSE <<>>

\* one template block rendered
RenderBlock(block) ==
    IF block.type = "paragraph"
    THEN <<P_OPEN>> \o block.text \o <<P_CLOSE>>
    ELSE IF block.type = "list" /\ block.itemsIsArray
    THEN <<"<ul>">>
         \o Concat([i \in 1..Len(block.items) |-> <<"<li>", block.items[i], "</li>">>])
         \o <<"</ul>">>
    ELSE <<>>

\* a null entry of the template array
NullEntry == [type |-> "null", text |-> <<>>, itemsIsArray |-> FALSE, items |-> <<>>]

\* getScopeTextFromJSON reads block.type of every entry: a null entry raises
\* a TypeError
getScopeTextFromJSONThrows(template) ==
    /\ template.isArray
    /\ \E i \in 1..Len(template.blocks) : template.blocks[i] = NullEntry

\* template is [isArray, blocks]; a value that is not an array has isArray = FALSE
getScopeTextFromJSON(template) ==
    IF ~template.isArray
    THEN <<>>
    ELSE Trim(Concat([i \in 1..Len(template.blocks) |-> RenderBlock(template.blocks[i])]))

-----------------------------------------------------------------------------
(* Block builders *)

DIV_OPEN  == "<div class=\"mb-2\">"
DIV_CLOSE == "</div>"
SPACER    == <<DIV_OPEN, "&nbsp;", DIV_CLOSE>>

\* blocks.map((b, idx) => idx > 0 ? spacer + b : b).join('')
WithSpacers(blocks) ==
    Concat([i \in 1..Len(blocks) |-> IF i > 1 THEN SPACER \o blocks[i] ELSE blocks[i]])

formatWebsiteDataForSummary(domain) ==
    IF domain = "" THEN <<>>
    ELSE <<DIV_OPEN>> \o Join(<< <<"WEBSITE">>, <<"<strong>URL:</strong> " \o domain>> >>, <<BR>>) \o <<DIV_CLOSE>>

\* apps.push({ ...app, name: suggestedName })
Renamed(apps, suggestedName) ==
    [i \in 1..Len(apps) |-> [apps[i] EXCEPT !.name = suggestedName]]

\* mobileDetails is [present, suggested_apps, suggested_name, alternatives];
\* alternatives is [present, iOS, Android]; a missing list is the empty list
getMobileAppsToRender(mobileDetails, cfg) ==
    IF ~mobileDetails.present THEN <<>>
    ELSE
        LET suggestedOnly == cfg.present /\ cfg.suggestedAppsOnly
            suggestedName == IF mobileDetails.suggested_name # ""
                             THEN mobileDetails.suggested_name
                             ELSE mobileDetails.suggested_apps[1].name
            main == IF Len(mobileDetails.suggested_apps) > 0
                    THEN Renamed(mobileDetails.suggested_apps, suggestedName)
                    ELSE <<>>
            alts == IF ~suggestedOnly /\ mobileDetails.alternatives.present
                    THEN mobileDetails.alternatives.iOS \o mobileDetails.alternatives.Android
                    ELSE <<>>
        IN  main \o alts

\* an entry that shows the platform as it was given
MobileEntryRawPlatform(app) ==
    LET appName == IF app.name # "" THEN app.name ELSE "Unknown App"
        title   == "MOBILE APP: " \o appName
                   \o (IF app.platform # "" THEN " (" \o app.platform \o ")" ELSE "")
        lines   == << <<title>> >>
                   \o (IF app.url # "" THEN << <<"<strong>URL:</strong> " \o app.url>> >> ELSE <<>>)
                   \o << <<"<strong>Version:</strong> Current">> >>
    IN  <<DIV_OPEN>> \o Join(lines, <<BR>>) \o <<DIV_CLOSE>>

MobileEntry(app) ==
    LET appName       == IF app.name # "" THEN app.name ELSE "Unknown App"
        platformLabel == IF app.platform = "iOS" THEN "Apple"
                         ELSE IF app.platform = "Android" THEN "Android"
                         ELSE ""
        title == "MOBILE APP: " \o appName
                 \o (IF platformLabel # "" THEN " (" \o platformLabel \o ")" ELSE "")
        lines == << <<title>> >>
                 \o (IF app.url # "" THEN << <<"<strong>URL:</strong> " \o app.url>> >> ELSE <<>>)
                 \o << <<"<strong>Version:</strong> Current">> >>
    IN  <<DIV_OPEN>> \o Join(lines, <<BR>>) \o <<DIV_CLOSE>>

formatMobileDataForSummary(mobileDetails, cfg) ==
    ValueOf({ IF Len(apps) = 0 THEN <<>>
              ELSE ValueOf({ WithSpacers(blocks) :
                               blocks \in { [i \in 1..Len(apps) |-> MobileEntry(apps[i])] } })
              : apps \in { getMobileAppsToRender(mobileDetails, cfg) } })

\* api is [name, mainPage, documentationUrls]; a missing mainPage is "" and is
\* interpolated as the text "undefined"
ApiEntry(api) ==
    LET docs  == api.documentationUrls
        lines == << <<"API: " \o (IF api.name # "" THEN api.name ELSE "Unknown API")>>,
                    <<"<strong>URL:</strong> " \o (IF api.mainPage # "" THEN api.mainPage ELSE "undefined")>> >>
                 \o (IF Len(docs) = 1
                     THEN << <<"<strong>Documentation:</strong> " \o docs[1]>> >>
                     ELSE IF Len(docs) > 1
                     THEN << <<"<strong>Documentation:</strong>">> >>
                          \o [i \in 1..Len(docs) |-> <<docs[i]>>]
                     ELSE <<>>)
    IN  <<DIV_OPEN>> \o Join(lines, <<BR>>) \o <<DIV_CLOSE>>

\* apiData is [present, suggestedApis, alternativeApis]
formatApiDataForSummary(apiData, cfg) ==
    IF ~apiData.present THEN <<>>
    ELSE
        \* window.config?.suggestedApisOnly !== false
        LET suggestedApisOnly == ~(cfg.present /\ cfg.suggestedApisOnly = "false")
            apis == apiData.suggestedApis
                    \o (IF ~suggestedApisOnly THEN apiData.alternativeApis ELSE <<>>)
        IN  IF Len(apis) = 0 THEN <<>>
            ELSE ValueOf({ WithSpacers(blocks) :
                             blocks \in { [i \in 1..Len(apis) |-> ApiEntry(apis[i])] } })

\* sections that keep the empty fragments
AllSections(seqs) == seqs

NonEmpty(seqs) == SelectSeq(seqs, LAMBDA b : b # <<>>)

IN_SCOPE_HEADING == <<P_OPEN, "<strong>In-Scope Assets</strong>", P_CLOSE>>

\* enteredUrl is localStorage.getItem('enteredUrl') || ''
buildAssetsBlockForScope(apiStore, enteredUrl, cfg) ==
    LET domain       == enteredUrl
        websitesHTML == IF domain # "" THEN formatWebsiteDataForSummary(domain) ELSE <<>>
        mobilesHTML  == formatMobileDataForSummary(apiStore.mobileDetails, cfg)
        apisHTML     == formatApiDataForSummary(apiStore.apiDetails, cfg)
    IN  ValueOf({ <<"--START IN-SCOPE--">>
                  \o IN_SCOPE_HEADING
                  \o WithSpacers(sections)
                  \o <<P_OPEN, "--END IN-SCOPE--", P_CLOSE>>
                  : sections \in { NonEmpty(<<websitesHTML, mobilesHTML, apisHTML>>) } })

-----------------------------------------------------------------------------
(* Rewards block *)

\* severity.charAt(0).toUpperCase() + severity.slice(1)
Capitalize(severity) ==
    CASE severity = "critical" -> "Critical"
      [] severity = "high"     -> "High"
      [] severity = "medium"   -> "Medium"
      [] severity = "low"      -> "Low"
      [] OTHER                 -> severity

\* the en dash of the source is written "-"
MASKED_AMOUNT == "$[Lower Range]-$[Upper Range]"

\* obj[key] for an object kept as a sequence of [key, ...] entries
HasKey(entries, key) == \E i \in 1..Len(entries) : entries[i].key = key
Lookup(entries, key) == entries[CHOOSE i \in 1..Len(entries) : entries[i].key = key]

\* .replace(/(<br>\s*){3,}/g, '<br><br>'): every run of three or more <br>,
\* each with the whitespace after it, becomes two <br>
RECURSIVE BrRunEnd(_, _, _)
BrRunEnd(html, i, count) ==
    \* [next, count]: position after the run of (<br>\s*) that starts at i
    IF i <= Len(html) /\ html[i] = BR
    THEN BrRunEnd(html, SkipWhile(html, i + 1, WS), count + 1)
    ELSE [next |-> i, count |-> count]

RECURSIVE CollapseBreaks(_)
CollapseBreaks(html) ==
    IF html = <<>> THEN <<>>
    ELSE LET run == BrRunEnd(html, 1, 0)
         IN  IF run.count >= 3
             THEN <<BR, BR>> \o CollapseBreaks(SubSeq(html, run.next, Len(html)))
             ELSE <<Head(html)>> \o CollapseBreaks(Tail(html))

\* rewardsData is [present, tiers, definitions, examples]; tiers is a sequence of
\* [key, levels] in key order, levels a sequence of [key, amount];
\* definitions a sequence of [key, text]; examples a sequence of [key, items]
LevelLines(level, rewardsData, stripAmounts) ==
    LET severity == level.key
        defs     == IF rewardsData.present THEN rewardsData.definitions ELSE <<>>
        exs      == IF rewardsData.present THEN rewardsData.examples ELSE <<>>
        label    == Capitalize(severity)
        def      == IF HasKey(defs, severity) THEN Trim(Lookup(defs, severity).text) ELSE <<>>
        exArr    == IF HasKey(exs, severity) THEN Lookup(exs, severity).items ELSE <<>>
        exTxt    == Trim(Join([i \in 1..Len(exArr) |-> <<exArr[i]>>], <<", ">>))
        displayAmount == IF stripAmounts THEN MASKED_AMOUNT ELSE level.amount
        line     == <<BR, "<strong>", label>>
                    \o (IF displayAmount # "" THEN <<": ", displayAmount>> ELSE <<>>)
                    \o (IF def # <<>> THEN <<" - ">> \o def ELSE <<>>)
                    \o <<"</strong>">>
    IN  << line >> \o (IF exTxt # <<>> THEN << exTxt >> ELSE <<>>)

REWARDS_NOTE == "<em>Note: Reports without clear security implications or that require unrealistic attack scenarios will not be rewarded.</em>"

\* tierKey "" stands for undefined
buildRewardsTextFromTier(tierKey, rewardsData, stripAmounts) ==
    LET tiers == IF rewardsData.present THEN rewardsData.tiers ELSE <<>>
    IN  IF ~HasKey(tiers, tierKey) THEN <<>>
        ELSE
            LET tier  == Lookup(tiers, tierKey)
                lines == << <<"--START REWARDS--", BR, "<strong>Rewards</strong>">>,
                            <<"We offer bounties based on the severity and impact of the vulnerability:">> >>
                         \o Concat([i \in 1..Len(tier.levels) |->
                                       LevelLines(tier.levels[i], rewardsData, stripAmounts)])
                         \o << <<BR, REWARDS_NOTE>>,
                               <<"--END REWARDS--">> >>
            IN  ValueOf({ CollapseBreaks(joined) : joined \in { Join(lines, <<BR>>) } })

\* a fallback that shows the amounts of the first tier
getRewardsTextWithAmounts(rewardsData, savedTierKey) ==
    LET tiers           == IF rewardsData.present THEN rewardsData.tiers ELSE <<>>
        fallbackTierKey == IF Len(tiers) > 0 THEN tiers[1].key ELSE ""
    IN  IF savedTierKey = "" \/ ~HasKey(tiers, savedTierKey)
        THEN buildRewardsTextFromTier(fallbackTierKey, rewardsData, FALSE)
        ELSE buildRewardsTextFromTier(savedTierKey, rewardsData, FALSE)

\* savedTierKey is localStorage.getItem('selectedRewardTier'), "" for null
getRewardsTextForScope(rewardsData, savedTierKey) ==
    LET tiers           == IF rewardsData.present THEN rewardsData.tiers ELSE <<>>
        fallbackTierKey == IF Len(tiers) > 0 THEN tiers[1].key ELSE ""
    IN  IF savedTierKey = "" \/ ~HasKey(tiers, savedTierKey)
        THEN buildRewardsTextFromTier(fallbackTierKey, rewardsData, TRUE)
        ELSE buildRewardsTextFromTier(savedTierKey, rewardsData, FALSE)

-----------------------------------------------------------------------------
(* The application: state *)

Truthy(html) == html # <<>>

NoMobile ==
    [present |-> FALSE, suggested_apps |-> <<>>, suggested_name |-> "",
     alternatives |-> [present |-> FALSE, iOS |-> <<>>, Android |-> <<>>]]

NoApi == [present |-> FALSE, suggestedApis |-> <<>>, alternativeApis |-> <<>>]

OneApp ==
    [present |-> TRUE,
     suggested_apps |-> << [name |-> "Shop", platform |-> "iOS", url |-> "https://apps.example/shop"] >>,
     suggested_name |-> "",
     alternatives |-> [present |-> FALSE, iOS |-> <<>>, Android |-> <<>>]]

OneApi ==
    [present |-> TRUE,
     suggestedApis |-> << [name |-> "Shop API", mainPage |-> "https://api.example",
                           documentationUrls |-> <<"https://api.example/docs">>] >>,
     alternativeApis |-> <<>>]

\* results a load can leave in storedApiData
AssetDataChoices ==
    { [mobileDetails |-> NoMobile, apiDetails |-> NoApi],
      [mobileDetails |-> OneApp, apiDetails |-> OneApi] }

Paragraph(text) == [type |-> "paragraph", text |-> text, itemsIsArray |-> FALSE, items |-> <<>>]
List(items)     == [type |-> "list", text |-> <<>>, itemsIsArray |-> TRUE, items |-> items]

TemplateFull ==
    [isArray |-> TRUE,
     blocks |-> << Paragraph(<<"Program scope">>),
                   Paragraph(<<"--START IN-SCOPE--", "assets", "--END IN-SCOPE--">>),
                   List(<<"No social engineering">>),
                   Paragraph(<<"--START REWARDS--", "rewards", "--END REWARDS--">>) >>]

TemplateNoRewards ==
    [isArray |-> TRUE,
     blocks |-> << Paragraph(<<"Program scope">>),
                   Paragraph(<<"--START IN-SCOPE--", "assets", "--END IN-SCOPE--">>) >>]

TemplateNoInScope ==
    [isArray |-> TRUE,
     blocks |-> << Paragraph(<<"Program scope">>),
                   Paragraph(<<"--START REWARDS--", "rewards", "--END REWARDS--">>) >>]

TemplateNotLoaded == [isArray |-> FALSE, blocks |-> <<>>]

\* the default template with a null entry
TemplateNullEntry ==
    [isArray |-> TRUE,
     blocks |-> << Paragraph(<<"Program scope">>),
                   NullEntry,
                   Paragraph(<<"--START IN-SCOPE--", "assets", "--END IN-SCOPE--">>),
                   Paragraph(<<"--START REWARDS--", "rewards", "--END REWARDS--">>) >>]

\* a template whose IN-SCOPE marker has no partner
TemplateNoEnd ==
    [isArray |-> TRUE,
     blocks |-> << Paragraph(<<"Program scope">>),
                   Paragraph(<<"--START IN-SCOPE--", "assets">>),
                   Paragraph(<<"--START REWARDS--", "rewards", "--END REWARDS--">>) >>]

RewardsTwoTiers ==
    [present |-> TRUE,
     tiers |-> << [key |-> "low",
                   levels |-> << [key |-> "critical", amount |-> "$100-$200"],
                                 [key |-> "high", amount |-> ""] >>],
                  [key |-> "standard",
                   levels |-> << [key |-> "critical", amount |-> "$1000-$2000"] >>] >>,
     definitions |-> << [key |-> "critical", text |-> <<"Full compromise">>] >>,
     examples |-> << [key |-> "critical", items |-> <<"RCE", "SQL injection">>] >>]

RewardsNoTiers ==
    [present |-> TRUE, tiers |-> <<>>, definitions |-> <<>>, examples |-> <<>>]

ConfigChoices ==
    { [present |-> TRUE, suggestedAppsOnly |-> TRUE, suggestedApisOnly |-> "true"] }

RawDomains == { "a.com", "B.com" }

\* String.prototype.toLowerCase on the domains used here
ToLowerCase(s) == IF s = "B.com" THEN "b.com" ELSE s

\* extractDomain: host name, lower-cased
extractDomain(input) == ToLowerCase(input)

EmptyStorage ==
    [enteredUrl |-> "", initialDomain |-> "", selectedRewardTier |-> "",
     lastRenderedRewardTier |-> "", partialScopeHTML |-> <<>>, finalScopeHTML |-> <<>>]

EmptyMemory ==
    [mobileDetails |-> NoMobile, apiDetails |-> NoApi,
     partialScopeHTML |-> <<>>, finalScopeHTML |-> <<>>]

\* the domains the inputs normalise to
Domains == { extractDomain(raw) : raw \in RawDomains }

\* localStorage.getItem('apiData_<domain>') of a domain never loaded
NoCache == [present |-> FALSE, mobileDetails |-> NoMobile, apiDetails |-> NoApi]

\* no load was started, nothing is cached, no domain is being handled
LoadIdle ==
    /\ apiLoadState = [seq |-> 0]
    /\ loads = <<>>
    /\ apiCache = [d \in Domains |-> NoCache]
    /\ typingTimeout = FALSE
    /\ resolving = <<>>
    /\ isProcessing = FALSE
    /\ pendingDomain = ""
    /\ lastProcessedValue = ""

\* StepIndex of navigation.js
BUILDER == 0
FINAL   == 1

\* the configuration files the application is started with
Setups ==
    { [scopeText |-> TemplateFull,      rewards |-> RewardsTwoTiers],
      [scopeText |-> TemplateFull,      rewards |-> RewardsNoTiers],
      [scopeText |-> TemplateNoRewards, rewards |-> RewardsTwoTiers],
      [scopeText |-> TemplateNoInScope, rewards |-> RewardsTwoTiers],
      [scopeText |-> TemplateNotLoaded, rewards |-> RewardsTwoTiers] }

\* the application right after start with the given configuration files
Started(setup) ==
    /\ scopeText = setup.scopeText
    /\ rewards = setup.rewards
    /\ config \in ConfigChoices
    /\ storedApiData = EmptyMemory
    /\ localStorage = EmptyStorage
    /\ websiteUrl = ""
    /\ currentStepIndex = BUILDER
    /\ edits = 0
    /\ last = <<>>
    /\ LoadIdle

AppIdle == Started([scopeText |-> TemplateFull, rewards |-> RewardsTwoTiers])

MarkerIdle ==
    /\ mDoc = <<>>
    /\ mName = "IN-SCOPE"
    /\ mBlock = <<>>
    /\ mPc = "idle"
    /\ mResult = <<>>
    /\ mResult2 = <<>>
    /\ mExtract = <<>>
    /\ mWarnings = 0

Init ==
    /\ MarkerIdle
    /\ \E setup \in Setups : Started(setup)

-----------------------------------------------------------------------------
(* The application: the assembler *)

\* a replacement whose pattern starts at the START marker of the other region
ReplaceSpanFromInScope(html, start, end, block) ==
    IF SpanTest(html, "--START IN-SCOPE--", end)
    THEN LET m == SpanMatch(html, "--START IN-SCOPE--", end)
         IN  Splice(html, m.from, m.to, block)
    ELSE html

\* html.replace(/--START REWARDS--[\s\S]*?--END REWARDS--/i, block)
ReplaceSpan(html, start, end, block) ==
    IF SpanTest(html, start, end)
    THEN LET m == SpanMatch(html, start, end)
         IN  Splice(html, m.from, m.to, block)
    ELSE html

\* the decision of buildPartialScopeTextFromApi: which document to save
MergeAssets(existing, assetsBlock, initialDomain, currentDomain, template) ==
    IF Truthy(existing) /\ Includes(existing, "--START IN-SCOPE--")
    THEN LET isUrlChanged  == initialDomain # "" /\ initialDomain # currentDomain
             oldAssets     == ValueOf({ Trim(block) : block \in { extractBlockByMarker(existing, "IN-SCOPE") } })
             newAssets     == Trim(assetsBlock)
             assetsChanged == oldAssets # newAssets
         IN  IF isUrlChanged \/ assetsChanged
             THEN [branch |-> "replace",
                   html   |-> replaceBlockByMarker(existing, "IN-SCOPE", assetsBlock)]
             ELSE [branch |-> "keep", html |-> existing]
    ELSE [branch |-> "template",
          html   |-> ValueOf({ replaceBlockByMarker(templateHTML, "IN-SCOPE", assetsBlock) :
                                 templateHTML \in { getScopeTextFromJSON(template) } })]

\* setFinalScopeHTML: nothing is stored for an empty html
StorageWithFinal(storage, html) ==
    IF ~Truthy(html) THEN storage ELSE [storage EXCEPT !.finalScopeHTML = html]

MemoryWithFinal(memory, html) ==
    IF ~Truthy(html) THEN memory ELSE [memory EXCEPT !.finalScopeHTML = html]

\* Record of one call of the assembler, kept in the history variable last.
\*   op: "build" | "display";  branch: the path taken;
\*   before: the existing document the call patched (<<>> if none);
\*   after: the document the call produced;
\*   stored: the document that was persisted before the call under the key
\*           the call writes (partialScopeHTML for build, finalScopeHTML for display);
\*   block: the freshly built region;  docWrites: documents persisted by the call;
\*   urlChanged: isUrlChanged of the build;  tier, tierBefore: selectedRewardTier
\*   and lastRenderedRewardTier read by the display;
\*   tierWrites: number of times the call stored lastRenderedRewardTier
Call(op, branch, before, after, stored, block, docWrites, urlChanged, tier, tierBefore, tierWrites) ==
    [op |-> op, branch |-> branch, before |-> before, after |-> after,
     stored |-> stored, block |-> block, docWrites |-> docWrites,
     urlChanged |-> urlChanged, tier |-> tier, tierBefore |-> tierBefore,
     tierWrites |-> tierWrites]

\* buildPartialScopeTextFromApi: [memory, storage] after the call, and its record
buildPartialScopeTextFromApi(memory, storage, url, template, cfg) ==
    LET currentDomain   == ToLowerCase(url)
        existingFinal   == storage.finalScopeHTML
        existingPartial == storage.partialScopeHTML
        existing        == IF Truthy(existingFinal) THEN existingFinal ELSE existingPartial
        initialDomain   == storage.initialDomain
        syncFinal       == Truthy(existingFinal)
    IN  IF ~template.isArray \/ Len(template.blocks) = 0
        THEN \* aborting
             [memory  |-> memory,
              storage |-> storage,
              call    |-> Call("build", "abort", <<>>, <<>>, existingPartial, <<>>, 0, FALSE, "", "", 0)]
        ELSE IF ~(Truthy(existing) /\ Includes(existing, "--START IN-SCOPE--"))
                /\ getScopeTextFromJSONThrows(template)
        THEN \* the template branch raises before anything is written
             [memory  |-> memory,
              storage |-> storage,
              call    |-> Call("build", "throw", existing, <<>>, existingPartial, <<>>, 0, FALSE, "", "", 0)]
        ELSE ValueOf({ ValueOf({
               LET finalHTML  == merged.html
                   saved      == [storage EXCEPT !.partialScopeHTML = finalHTML]
                   synced     == IF syncFinal THEN StorageWithFinal(saved, finalHTML) ELSE saved
                   remembered == [memory EXCEPT !.partialScopeHTML = finalHTML]
               IN  [memory  |-> IF syncFinal THEN MemoryWithFinal(remembered, finalHTML) ELSE remembered,
                    storage |-> [synced EXCEPT !.initialDomain = currentDomain],
                    call    |-> Call("build", merged.branch, existing, finalHTML, existingPartial,
                                     assetsBlock,
                                     1 + (IF syncFinal /\ Truthy(finalHTML) THEN 1 ELSE 0),
                                     initialDomain # "" /\ initialDomain # currentDomain, "", "", 0)]
               : merged \in { MergeAssets(existing, assetsBlock, initialDomain, currentDomain, template) } })
               : assetsBlock \in { buildAssetsBlockForScope(memory, storage.enteredUrl, cfg) } })

\* getFinalScopeHTML: template or saved partial with both regions injected
getFinalScopeHTML(memory, storage, rewardsData, template, cfg) ==
    LET partial        == IF Truthy(memory.partialScopeHTML)
                          THEN memory.partialScopeHTML
                          ELSE storage.partialScopeHTML
    IN  ValueOf({ Trim(scopeHTML) :
            scopeHTML \in { replaceBlockByMarker(baseWithAssets, "REWARDS", rewardsBlock) :
                baseWithAssets \in { replaceBlockByMarker(base, "IN-SCOPE", newAssetsBlock) :
                    base \in { IF ~Truthy(partial) THEN getScopeTextFromJSON(template) ELSE partial },
                    newAssetsBlock \in { buildAssetsBlockForScope(memory, storage.enteredUrl, cfg) } },
                rewardsBlock \in { getRewardsTextForScope(rewardsData, storage.selectedRewardTier) } } })

\* a policy that adds the rewards block without looking for the region
MergeRewardsAppends(existing, rewardsBlock, selectedTier, lastRenderedTier) ==
    [branch |-> "append", html |-> existing \o <<"\n">> \o rewardsBlock]

\* a policy that rebuilds the rewards region on every display
MergeRewardsAlways(existing, rewardsBlock, selectedTier, lastRenderedTier) ==
    IF Includes(existing, "--START REWARDS--")
    THEN [branch |-> "replace",
          html   |-> ReplaceSpan(existing, "--START REWARDS--", "--END REWARDS--", rewardsBlock)]
    ELSE [branch |-> "append", html |-> existing \o <<"\n">> \o rewardsBlock]

\* the rewards update policy of displayScopePage
MergeRewards(existing, rewardsBlock, selectedTier, lastRenderedTier) ==
    LET hadTier        == lastRenderedTier # ""
        hasTier        == selectedTier # ""
        tierChanged    == hadTier /\ hasTier /\ lastRenderedTier # selectedTier
        becameSelected == ~hadTier /\ hasTier
    IN  IF ~hasTier \/ tierChanged \/ becameSelected
        THEN IF Includes(existing, "--START REWARDS--")
             THEN [branch |-> "replace",
                   html   |-> ReplaceSpan(existing, "--START REWARDS--", "--END REWARDS--", rewardsBlock)]
             ELSE [branch |-> "append", html |-> existing \o <<"\n">> \o rewardsBlock]
        ELSE [branch |-> "keep", html |-> existing]

\* displayScopePage: [memory, storage] after the call, and its record
displayScopePage(memory, storage, rewardsData, template, cfg) ==
    LET selectedTier     == storage.selectedRewardTier
        lastRenderedTier == storage.lastRenderedRewardTier
        existing == IF Truthy(storage.finalScopeHTML) THEN storage.finalScopeHTML
                    ELSE IF Truthy(memory.partialScopeHTML) THEN memory.partialScopeHTML
                    ELSE storage.partialScopeHTML
    IN  IF ~Truthy(existing) /\ getScopeTextFromJSONThrows(template)
        THEN \* getFinalScopeHTML raises before anything is shown or written
             [memory  |-> memory,
              storage |-> storage,
              call    |-> Call("display", "throw", <<>>, <<>>, storage.finalScopeHTML, <<>>, 0,
                               FALSE, selectedTier, lastRenderedTier, 0)]
        ELSE
        ValueOf({
          IF ~Truthy(existing)
          THEN ValueOf({
                 [memory  |-> MemoryWithFinal(memory, scopeHTML),
                  storage |-> StorageWithFinal(storage, scopeHTML),
                  call    |-> Call("display", "fallback", <<>>, scopeHTML, storage.finalScopeHTML,
                                   rewardsBlock, IF Truthy(scopeHTML) THEN 1 ELSE 0,
                                   FALSE, selectedTier, lastRenderedTier, 0)]
                 : scopeHTML \in { getFinalScopeHTML(memory, storage, rewardsData, template, cfg) } })
          ELSE ValueOf({
                 [memory  |-> MemoryWithFinal(memory, merged.html),
                  storage |-> [StorageWithFinal(storage, merged.html)
                                  EXCEPT !.lastRenderedRewardTier = selectedTier],
                  call    |-> Call("display", merged.branch, existing, merged.html,
                                   storage.finalScopeHTML, rewardsBlock,
                                   IF Truthy(merged.html) THEN 1 ELSE 0,
                                   FALSE, selectedTier, lastRenderedTier, 1)]
                 : merged \in { MergeRewards(existing, rewardsBlock, selectedTier, lastRenderedTier) } })
          : rewardsBlock \in { getRewardsTextForScope(rewardsData, selectedTier) } })

\* number of line feeds a document holds: one per appended rewards block
Appended(html) == Cardinality({ i \in 1..Len(html) : html[i] = "\n" })

-----------------------------------------------------------------------------
(* The application: handlers *)

\* loadAndProcessApiData after the loader returned ok, partial or cached:
\* the partial document is rebuilt and, on the FINAL page, displayed
LoadAndProcessApiData ==
    \E built \in { buildPartialScopeTextFromApi(storedApiData, localStorage, websiteUrl,
                                                scopeText, config) } :
        IF currentStepIndex = FINAL /\ built.call.branch # "throw"
        THEN \E shown \in { displayScopePage(built.memory, built.storage, rewards,
                                               scopeText, config) } :
             /\ Appended(shown.call.after) <= MaxAppended
             /\ storedApiData' = shown.memory
             /\ localStorage' = shown.storage
             /\ last' = <<built.call, shown.call>>
             /\ UNCHANGED <<scopeText, rewards, config, websiteUrl, currentStepIndex, edits>>
             /\ UNCHANGED markerVars
             /\ UNCHANGED loadVars
        ELSE /\ storedApiData' = built.memory
             /\ localStorage' = built.storage
             /\ last' = <<built.call>>
             /\ UNCHANGED <<scopeText, rewards, config, websiteUrl, currentStepIndex, edits>>
             /\ UNCHANGED markerVars
             /\ UNCHANGED loadVars

\* the FINAL page becomes visible or is refreshed: displayScopePage runs
DisplayScope ==
    \E shown \in { displayScopePage(storedApiData, localStorage, rewards, scopeText, config) } :
        /\ Appended(shown.call.after) <= MaxAppended
        /\ storedApiData' = shown.memory
        /\ localStorage' = shown.storage
        /\ last' = <<shown.call>>

\* goToNextStep: showStep(FINAL), which calls the registered displayScope
GoToNextStep ==
    /\ currentStepIndex = BUILDER
    /\ currentStepIndex' = FINAL
    /\ DisplayScope
    /\ UNCHANGED <<scopeText, rewards, config, websiteUrl, edits>>
    /\ UNCHANGED markerVars
    /\ UNCHANGED loadVars

\* goToPreviousStep: showStep(BUILDER)
GoToPreviousStep ==
    /\ currentStepIndex = FINAL
    /\ currentStepIndex' = BUILDER
    /\ last' = <<>>
    /\ UNCHANGED <<scopeText, rewards, config, storedApiData, localStorage, websiteUrl, edits>>
    /\ UNCHANGED markerVars
    /\ UNCHANGED loadVars

\* the 'api-data-updated' listener: on the FINAL page the scope is displayed again
ApiDataUpdated ==
    /\ currentStepIndex = FINAL
    /\ DisplayScope
    /\ UNCHANGED <<scopeText, rewards, config, websiteUrl, currentStepIndex, edits>>
    /\ UNCHANGED markerVars
    /\ UNCHANGED loadVars

\* a click on a reward tier card (page 1)
SelectRewardTier ==
    /\ currentStepIndex = BUILDER
    /\ rewards.present
    /\ \E i \in 1..Len(rewards.tiers) :
          localStorage' = [localStorage EXCEPT !.selectedRewardTier = rewards.tiers[i].key]
    /\ last' = <<>>
    /\ UNCHANGED <<scopeText, rewards, config, storedApiData, websiteUrl, currentStepIndex, edits>>
    /\ UNCHANGED markerVars
    /\ UNCHANGED loadVars

\* the user types raw into the #websiteUrl input (page 1) and handleDomainInput
\* runs on it, up to the point where the normalised domain is persisted
HandleDomainInput ==
    /\ currentStepIndex = BUILDER
    /\ \E raw \in RawDomains :
          /\ websiteUrl' = raw
          /\ localStorage' = IF extractDomain(raw) = ""
                             THEN localStorage
                             ELSE [localStorage EXCEPT !.enteredUrl = extractDomain(raw)]
    /\ websiteUrl' # websiteUrl
    /\ last' = <<>>
    /\ UNCHANGED <<scopeText, rewards, config, storedApiData, currentStepIndex, edits>>
    /\ UNCHANGED markerVars
    /\ UNCHANGED loadVars

\* loadApiDataInBackground merges the fetched results into storedApiData
ApplyApiResults ==
    /\ \E d \in AssetDataChoices :
          storedApiData' = [storedApiData EXCEPT !.mobileDetails = d.mobileDetails,
                                                 !.apiDetails = d.apiDetails]
    /\ storedApiData' # storedApiData
    /\ last' = <<>>
    /\ UNCHANGED <<scopeText, rewards, config, localStorage, websiteUrl, currentStepIndex, edits>>
    /\ UNCHANGED markerVars
    /\ UNCHANGED loadVars

Next ==
    \/ LoadAndProcessApiData
    \/ GoToNextStep
    \/ GoToPreviousStep
    \/ ApiDataUpdated
    \/ SelectRewardTier
    \/ HandleDomainInput
    \/ ApplyApiResults

Spec == Init /\ [][Next]_vars

\* the application started with malformed or partial configuration files
MalformedSetups ==
    { [scopeText |-> TemplateNullEntry, rewards |-> RewardsTwoTiers],
      [scopeText |-> TemplateNoEnd,     rewards |-> RewardsTwoTiers],
      [scopeText |-> TemplateFull,      rewards |-> RewardsNoTiers] }

InitMalformed ==
    /\ MarkerIdle
    /\ \E setup \in MalformedSetups : Started(setup)

SpecMalformed == InitMalformed /\ [][Next]_vars

-----------------------------------------------------------------------------
(* The application with the Reset button *)

\* localStorage after performReset removed its keys: initialDomain and
\* lastRenderedRewardTier are not among them
ResetStorage(storage) ==
    [storage EXCEPT !.enteredUrl = "", !.selectedRewardTier = "",
                    !.partialScopeHTML = <<>>, !.finalScopeHTML = <<>>]

\* a click on #resetButton: performReset clears the flags of the domain
\* input, the keys of localStorage, the cached payloads, storedApiData, the
\* tier selection, the url input and the editor, and calls initializeSteps,
\* which finds no saved step and shows step currentStepIndex: on the FINAL
\* page displayScope runs on the cleared state
PerformReset ==
    /\ \E shown \in { IF currentStepIndex = FINAL
                       THEN displayScopePage(EmptyMemory, ResetStorage(localStorage),
                                             rewards, scopeText, config)
                       ELSE [memory |-> EmptyMemory, storage |-> ResetStorage(localStorage)] } :
          /\ storedApiData' = shown.memory
          /\ localStorage' = shown.storage
          /\ last' = IF currentStepIndex = FINAL THEN <<shown.call>> ELSE <<>>
    /\ websiteUrl' = ""
    /\ typingTimeout' = FALSE
    /\ lastProcessedValue' = ""
    /\ pendingDomain' = ""
    /\ apiCache' = [d \in Domains |-> NoCache]
    /\ UNCHANGED <<scopeText, rewards, config, currentStepIndex, edits>>
    /\ UNCHANGED <<apiLoadState, loads, resolving, isProcessing>>
    /\ UNCHANGED markerVars

NextReset ==
    \/ Next
    \/ PerformReset

\* the application started with the default configuration files
InitReset ==
    /\ MarkerIdle
    /\ AppIdle

SpecReset == InitReset /\ [][NextReset]_vars

-----------------------------------------------------------------------------
(* The application with a user who edits the final document *)

InsertAt(html, i, tok) == SubSeq(html, 1, i) \o <<tok>> \o SubSeq(html, i + 1, Len(html))

\* positions of the tokens of html that match the marker literal
PositionsOf(html, literal) ==
    { k \in 1..Len(html) : MatchesIgnoreCase(html[k], literal) }

\* the edits tried: text typed at the start of the document, inside a region
\* (right after its START marker) or right after the IN-SCOPE region, and a
\* space typed right after the IN-SCOPE region
UserEditsOf(html) ==
    { InsertAt(html, i, "user text") :
          i \in {0} \cup PositionsOf(html, "--START IN-SCOPE--")
                   \cup PositionsOf(html, "--START REWARDS--")
                   \cup PositionsOf(html, "--END IN-SCOPE--") }
        \cup { InsertAt(html, i, " ") : i \in PositionsOf(html, "--END IN-SCOPE--") }

\* trix-change on the FINAL page: persistFinalScopeHTML stores the trimmed
\* editor content, which is the document displayScopePage loaded plus the edit
UserEditsScope ==
    /\ currentStepIndex = FINAL
    /\ edits < MaxEdits
    /\ Truthy(localStorage.finalScopeHTML)
    /\ \E edited \in UserEditsOf(localStorage.finalScopeHTML) :
          /\ localStorage' = StorageWithFinal(localStorage, Trim(edited))
          /\ storedApiData' = MemoryWithFinal(storedApiData, Trim(edited))
    /\ edits' = edits + 1
    /\ last' = <<>>
    /\ UNCHANGED <<scopeText, rewards, config, websiteUrl, currentStepIndex>>
    /\ UNCHANGED markerVars
    /\ UNCHANGED loadVars

\* the domain a.com was entered on page 1 of the default configuration
InitEdited ==
    /\ MarkerIdle
    /\ scopeText = TemplateFull
    /\ rewards = RewardsTwoTiers
    /\ config \in ConfigChoices
    /\ storedApiData = EmptyMemory
    /\ localStorage = [EmptyStorage EXCEPT !.enteredUrl = "a.com"]
    /\ websiteUrl = "a.com"
    /\ currentStepIndex = BUILDER
    /\ edits = 0
    /\ last = <<>>
    /\ LoadIdle

NextEdited ==
    \/ LoadAndProcessApiData
    \/ GoToNextStep
    \/ GoToPreviousStep
    \/ ApiDataUpdated
    \/ SelectRewardTier
    \/ ApplyApiResults
    \/ UserEditsScope

SpecEdited == InitEdited /\ [][NextEdited]_vars

-----------------------------------------------------------------------------
(* The background loader and the domain input on the BUILDER page *)

\* what the two endpoints answer for a domain; the answer of the API endpoint
\* is given as normalizeApiDetails returns it (it keeps the fields read by
\* the assembler and adds apiUrls, documentationUrls, suggestedApi)
MobileOf(domain) == [OneApp EXCEPT !.suggested_apps[1].name = domain]
ApiOf(domain)    == [OneApi EXCEPT !.suggestedApis[1].name = domain]

\* One call of loadApiDataInBackground.
\*   mobile, api: its two requests: "skipped" | "pending" | "data" (fulfilled
\*       with a payload) | "error" (fulfilled with { error: true }) | "aborted"
\*       (rejected with an AbortError);
\*   status: "running", or the status the call returned;
\*   superseded (history): while the call was running, another domain was
\*       typed or a load for another domain was started;
\*   wrote (history): what the call and the rebuild that follows it wrote:
\*       "storedApiData", "cache", "document"
Load(domain, mobile, api) ==
    [domain |-> domain, mobile |-> mobile, api |-> api, status |-> "running",
     superseded |-> FALSE, wrote |-> {}]

Running(l) == l.status = "running"

\* Promise.allSettled of the two requests is settled
Settled(l) == Running(l) /\ l.mobile # "pending" /\ l.api # "pending"

\* the continuation of a load is queued as a microtask: it runs before the
\* next event is handled
MicrotaskQueued == \E k \in 1..Len(loads) : Settled(loads[k])

\* mobileCtrl.abort(); apiCtrl.abort() on the controllers of window.__apiLoadState
AbortInFlight(ls, seq) ==
    [k \in 1..Len(ls) |->
        IF k = seq
        THEN [ls[k] EXCEPT !.mobile = IF @ = "pending" THEN "aborted" ELSE @,
                           !.api    = IF @ = "pending" THEN "aborted" ELSE @]
        ELSE ls[k]]

\* history: domain is typed, or a load for it starts, while the loads of ls run
Supersede(ls, domain) ==
    [k \in 1..Len(ls) |->
        IF Running(ls[k]) /\ ls[k].domain # domain
        THEN [ls[k] EXCEPT !.superseded = TRUE]
        ELSE ls[k]]

\* a handler that drops a domain entered while another one is processed
handleDomainInputDropsBusy(rawInput, h, seq) ==
    LET domain == extractDomain(rawInput)
    IN  IF domain = "" THEN h
        ELSE IF domain = h.lastProcessedValue THEN h
        ELSE IF h.isProcessing
        THEN [h EXCEPT !.loads = AbortInFlight(@, seq)]
        ELSE [h EXCEPT !.enteredUrl = domain, !.resolving = Append(@, domain)]

\* handleDomainInput up to its first await (checkDomainResolvable), for an
\* input of valid format.  h is [isProcessing, pendingDomain,
\* lastProcessedValue, resolving, enteredUrl, loads]
handleDomainInput(rawInput, h, seq) ==
    LET domain == extractDomain(rawInput)
    IN  IF domain = "" THEN h
        ELSE IF domain = h.lastProcessedValue THEN h
        ELSE IF h.isProcessing
        THEN [h EXCEPT !.pendingDomain = domain, !.loads = AbortInFlight(@, seq)]
        ELSE [h EXCEPT !.enteredUrl = domain, !.resolving = Append(@, domain)]

\* saveCurrentUrl of setupUrlPersistence: [url, entered] after it
saveCurrentUrl(url, entered) ==
    IF entered = extractDomain(url)
    THEN [url |-> url, entered |-> entered]
    ELSE [url |-> extractDomain(url), entered |-> extractDomain(url)]

\* the 'input' listeners of #websiteUrl: the requests in flight are aborted
\* and the debounce timers are armed
WebsiteInput ==
    /\ currentStepIndex = BUILDER
    /\ ~MicrotaskQueued
    /\ Len(loads) + Len(resolving) + (IF pendingDomain # "" THEN 1 ELSE 0) < MaxLoads
    /\ \E raw \in RawDomains :
          /\ raw # websiteUrl
          /\ websiteUrl' = raw
          /\ loads' = Supersede(AbortInFlight(loads, apiLoadState.seq), extractDomain(raw))
    /\ typingTimeout' = TRUE
    /\ last' = <<>>
    /\ UNCHANGED <<scopeText, rewards, config, storedApiData, localStorage,
                   currentStepIndex, edits>>
    /\ UNCHANGED <<apiLoadState, apiCache, resolving, isProcessing, pendingDomain,
                   lastProcessedValue>>
    /\ UNCHANGED markerVars

\* the debounce timers fire 500 ms after the last keystroke, in the order
\* their listeners were added: handleDomainInput on the value of the input,
\* then saveCurrentUrl
TypingStopped ==
    /\ currentStepIndex = BUILDER
    /\ ~MicrotaskQueued
    /\ typingTimeout
    /\ typingTimeout' = FALSE
    /\ \E h \in { handleDomainInput(websiteUrl,
                     [isProcessing |-> isProcessing, pendingDomain |-> pendingDomain,
                      lastProcessedValue |-> lastProcessedValue, resolving |-> resolving,
                      enteredUrl |-> localStorage.enteredUrl, loads |-> loads],
                     apiLoadState.seq) } :
       \E saved \in { saveCurrentUrl(websiteUrl, h.enteredUrl) } :
          /\ websiteUrl' = saved.url
          /\ localStorage' = [localStorage EXCEPT !.enteredUrl = saved.entered]
          /\ loads' = h.loads
          /\ resolving' = h.resolving
          /\ pendingDomain' = h.pendingDomain
    /\ last' = <<>>
    /\ UNCHANGED <<scopeText, rewards, config, storedApiData, currentStepIndex, edits>>
    /\ UNCHANGED <<apiLoadState, apiCache, isProcessing, lastProcessedValue>>
    /\ UNCHANGED markerVars

\* Enter is pressed in #websiteUrl: handleDomainInput on its value
EnterPressed ==
    /\ currentStepIndex = BUILDER
    /\ ~MicrotaskQueued
    /\ websiteUrl # ""
    /\ Len(loads) + Len(resolving) + (IF pendingDomain # "" THEN 1 ELSE 0) < MaxLoads
    /\ \E h \in { handleDomainInput(websiteUrl,
                     [isProcessing |-> isProcessing, pendingDomain |-> pendingDomain,
                      lastProcessedValue |-> lastProcessedValue, resolving |-> resolving,
                      enteredUrl |-> localStorage.enteredUrl, loads |-> loads],
                     apiLoadState.seq) } :
          /\ localStorage' = [localStorage EXCEPT !.enteredUrl = h.enteredUrl]
          /\ loads' = h.loads
          /\ resolving' = h.resolving
          /\ pendingDomain' = h.pendingDomain
    /\ last' = <<>>
    /\ UNCHANGED <<scopeText, rewards, config, storedApiData, websiteUrl,
                   currentStepIndex, edits>>
    /\ UNCHANGED <<apiLoadState, apiCache, typingTimeout, isProcessing, lastProcessedValue>>
    /\ UNCHANGED markerVars

\* #websiteUrl loses the focus: the listener of script.js calls
\* handleDomainInput unless the domain is the one processed last, then the
\* listener of setupUrlPersistence calls saveCurrentUrl
InputBlurred ==
    /\ currentStepIndex = BUILDER
    /\ ~MicrotaskQueued
    /\ websiteUrl # ""
    /\ Len(loads) + Len(resolving) + (IF pendingDomain # "" THEN 1 ELSE 0) < MaxLoads
    /\ \E before \in { [isProcessing |-> isProcessing, pendingDomain |-> pendingDomain,
                         lastProcessedValue |-> lastProcessedValue, resolving |-> resolving,
                         enteredUrl |-> localStorage.enteredUrl, loads |-> loads] } :
       \E h \in { IF extractDomain(websiteUrl) = lastProcessedValue
                   THEN before
                   ELSE handleDomainInput(websiteUrl, before, apiLoadState.seq) } :
       \E saved \in { saveCurrentUrl(websiteUrl, h.enteredUrl) } :
          /\ websiteUrl' = saved.url
          /\ localStorage' = [localStorage EXCEPT !.enteredUrl = saved.entered]
          /\ loads' = h.loads
          /\ resolving' = h.resolving
          /\ pendingDomain' = h.pendingDomain
    /\ last' = <<>>
    /\ UNCHANGED <<scopeText, rewards, config, storedApiData, currentStepIndex, edits>>
    /\ UNCHANGED <<apiLoadState, apiCache, typingTimeout, isProcessing, lastProcessedValue>>
    /\ UNCHANGED markerVars

\* loadApiDataInBackground after await Promise.allSettled, for the call
\* numbered mySeq: the status it returns, storedApiData after it, whether it
\* wrote apiData_<domain>
loadApiDataSettled(l, mySeq, seq, memory) ==
    LET bothAborted == l.mobile = "aborted" /\ l.api = "aborted"
        mobileError == l.mobile = "error"
        apiError    == l.api = "error"
        unchanged(status) ==
            [status |-> status, memory |-> memory, cached |-> FALSE, wrote |-> {}]
    IN  IF mySeq # seq THEN unchanged("stale")
        ELSE IF bothAborted THEN unchanged("aborted")
        ELSE IF mobileError /\ apiError THEN unchanged("error")
        ELSE [status |-> IF mobileError \/ apiError THEN "partial" ELSE "ok",
              memory |-> [memory EXCEPT
                            !.mobileDetails = IF l.mobile = "data" THEN MobileOf(l.domain) ELSE @,
                            !.apiDetails    = IF l.api = "data" THEN ApiOf(l.domain) ELSE @],
              cached |-> TRUE,
              wrote  |-> {"cache"} \cup (IF l.mobile = "data" \/ l.api = "data"
                                         THEN {"storedApiData"} ELSE {})]

\* What follows the await of loadApiDataInBackground for the call numbered k
\* on the BUILDER page: the rest of loadAndProcessApiData (the rebuild), then
\* the rest of handleDomainInput (lastProcessedValue, the finally block with
\* the queued domain).  ls, memory, waiting: loads, storedApiData and
\* resolving as the loader left them
AfterLoad(k, status, memory, ls, waiting, seq) ==
    LET shouldRebuild == status \in {"ok", "partial", "cached"}
        domain        == ls[k].domain
        processed     == IF status \in {"aborted", "stale", "noop"}
                         THEN lastProcessedValue ELSE domain
    IN  \E built \in { IF shouldRebuild
                      THEN buildPartialScopeTextFromApi(memory, localStorage, websiteUrl,
                                                        scopeText, config)
                      ELSE [memory |-> memory, storage |-> localStorage] } :
        \E h \in { IF pendingDomain # "" /\ pendingDomain # processed
                   THEN handleDomainInput(pendingDomain,
                           [isProcessing |-> FALSE, pendingDomain |-> "",
                            lastProcessedValue |-> processed, resolving |-> waiting,
                            enteredUrl |-> built.storage.enteredUrl,
                            loads |-> IF shouldRebuild /\ built.call.branch # "abort"
                                      THEN [ls EXCEPT ![k].wrote = @ \cup {"document"}]
                                      ELSE ls],
                           seq)
                   ELSE [isProcessing |-> FALSE, pendingDomain |-> "",
                         lastProcessedValue |-> processed, resolving |-> waiting,
                         enteredUrl |-> built.storage.enteredUrl,
                         loads |-> IF shouldRebuild /\ built.call.branch # "abort"
                                   THEN [ls EXCEPT ![k].wrote = @ \cup {"document"}]
                                   ELSE ls] } :
            /\ storedApiData' = built.memory
            /\ localStorage' = [built.storage EXCEPT !.enteredUrl = h.enteredUrl]
            /\ last' = IF shouldRebuild THEN <<built.call>> ELSE <<>>
            /\ loads' = h.loads
            /\ resolving' = h.resolving
            /\ isProcessing' = h.isProcessing
            /\ pendingDomain' = h.pendingDomain
            /\ lastProcessedValue' = h.lastProcessedValue
            /\ apiLoadState' = [seq |-> seq]

\* storedApiData after the cache of the domain was applied to it
WithCache(memory, saved) ==
    IF saved.present
    THEN [memory EXCEPT !.mobileDetails = IF @.present THEN @ ELSE saved.mobileDetails,
                        !.apiDetails    = IF @.present THEN @ ELSE saved.apiDetails]
    ELSE memory

\* checkDomainResolvable answers for a domain being handled: isProcessing is
\* set and loadApiDataInBackground runs up to its await.  It aborts the
\* requests in flight, takes the next sequence number, applies the cache and
\* either returns 'cached' or starts the requests for the sides it needs
DomainResolved ==
    /\ currentStepIndex = BUILDER
    /\ ~MicrotaskQueued
    /\ \E i \in 1..Len(resolving) :
       \E domain \in { resolving[i] } :
       \E waiting \in { SubSeq(resolving, 1, i - 1) \o SubSeq(resolving, i + 1, Len(resolving)) } :
       \E mySeq \in { apiLoadState.seq + 1 } :
       \E memory \in { WithCache(storedApiData, apiCache[domain]) } :
       \E aborted \in { Supersede(AbortInFlight(loads, apiLoadState.seq), domain) } :
          IF apiCache[domain].present /\ memory.mobileDetails.present /\ memory.apiDetails.present
          THEN AfterLoad(mySeq, "cached", memory,
                         Append(aborted, [Load(domain, "skipped", "skipped") EXCEPT
                                              !.status = "cached",
                                              !.wrote = IF memory # storedApiData
                                                        THEN {"storedApiData"} ELSE {}]),
                         waiting, mySeq)
          ELSE /\ loads' = Append(aborted,
                              Load(domain,
                                   IF ~apiCache[domain].present \/ ~memory.mobileDetails.present
                                   THEN "pending" ELSE "skipped",
                                   IF ~apiCache[domain].present \/ ~memory.apiDetails.present
                                   THEN "pending" ELSE "skipped"))
               /\ apiLoadState' = [seq |-> mySeq]
               /\ storedApiData' = memory
               /\ resolving' = waiting
               /\ isProcessing' = TRUE
               /\ last' = <<>>
               /\ UNCHANGED <<localStorage, pendingDomain, lastProcessedValue>>
    /\ UNCHANGED <<scopeText, rewards, config, websiteUrl, currentStepIndex, edits>>
    /\ UNCHANGED <<apiCache, typingTimeout>>
    /\ UNCHANGED markerVars

\* the mobile endpoint answers a request in flight, with data or with an error
MobileResponds ==
    /\ ~MicrotaskQueued
    /\ \E k \in 1..Len(loads) : \E answer \in {"data", "error"} :
          /\ Running(loads[k])
          /\ loads[k].mobile = "pending"
          /\ loads' = [loads EXCEPT ![k].mobile = answer]
    /\ last' = <<>>
    /\ UNCHANGED <<scopeText, rewards, config, storedApiData, localStorage, websiteUrl,
                   currentStepIndex, edits>>
    /\ UNCHANGED <<apiLoadState, apiCache, typingTimeout, resolving, isProcessing,
                   pendingDomain, lastProcessedValue>>
    /\ UNCHANGED markerVars

\* the API endpoint answers a request in flight, with data or with an error
ApiResponds ==
    /\ ~MicrotaskQueued
    /\ \E k \in 1..Len(loads) : \E answer \in {"data", "error"} :
          /\ Running(loads[k])
          /\ loads[k].api = "pending"
          /\ loads' = [loads EXCEPT ![k].api = answer]
    /\ last' = <<>>
    /\ UNCHANGED <<scopeText, rewards, config, storedApiData, localStorage, websiteUrl,
                   currentStepIndex, edits>>
    /\ UNCHANGED <<apiLoadState, apiCache, typingTimeout, resolving, isProcessing,
                   pendingDomain, lastProcessedValue>>
    /\ UNCHANGED markerVars

\* both requests of a load are settled: loadApiDataInBackground continues
\* after its await and returns, and its callers continue
LoadContinues ==
    /\ currentStepIndex = BUILDER
    /\ \E k \in 1..Len(loads) :
          /\ Settled(loads[k])
          /\ \E done \in { loadApiDataSettled(loads[k], k, apiLoadState.seq, storedApiData) } :
                /\ apiCache' = IF done.cached
                               THEN [apiCache EXCEPT ![loads[k].domain] =
                                        [present |-> TRUE,
                                         mobileDetails |-> done.memory.mobileDetails,
                                         apiDetails |-> done.memory.apiDetails]]
                               ELSE apiCache
                /\ AfterLoad(k, done.status, done.memory,
                             [loads EXCEPT ![k].status = done.status, ![k].wrote = done.wrote],
                             resolving, apiLoadState.seq)
    /\ UNCHANGED <<scopeText, rewards, config, websiteUrl, currentStepIndex, edits>>
    /\ UNCHANGED typingTimeout
    /\ UNCHANGED markerVars

InitLoad ==
    /\ MarkerIdle
    /\ AppIdle

NextLoad ==
    \/ WebsiteInput
    \/ TypingStopped
    \/ EnterPressed
    \/ InputBlurred
    \/ DomainResolved
    \/ MobileResponds
    \/ ApiResponds
    \/ LoadContinues

SpecLoad == InitLoad /\ [][NextLoad]_vars

\* the continuation of a settled load is a queued microtask and the event
\* loop runs it: weak fairness of LoadContinues, WF_vars(LoadContinues),
\* written out with MicrotaskQueued, the condition under which the action
\* is enabled, in place of ENABLED <<LoadContinues>>_vars
SpecLoadFair == SpecLoad /\ ([]<>(~MicrotaskQueued) \/ []<><<LoadContinues>>_vars)

-----------------------------------------------------------------------------
(* The marker engine exercised on bounded documents *)

MarkerAlphabet ==
    { P_OPEN, P_CLOSE, BR, " ", "x",
      "--START IN-SCOPE--", "--END IN-SCOPE--", "--START in-scope--" }

SeqsUpTo(S, n) == UNION { [1..k -> S] : k \in 0..n }

MarkerNames == { "IN-SCOPE", "in-scope" }

MarkerBlocks ==
    { <<"--START IN-SCOPE--", "y", "--END IN-SCOPE--">>,
      <<"--START IN-SCOPE--", P_OPEN, "y", P_CLOSE, P_OPEN, "--END IN-SCOPE--", P_CLOSE>>,
      <<"y">> }

InitMarker ==
    /\ mDoc \in SeqsUpTo(MarkerAlphabet, MaxDocLen)
    /\ mName \in MarkerNames
    /\ mBlock \in MarkerBlocks
    /\ mPc = "input"
    /\ mResult = <<>>
    /\ mResult2 = <<>>
    /\ mExtract = <<>>
    /\ mWarnings = 0
    /\ AppIdle

ReplaceOnce ==
    /\ mPc = "input"
    /\ mResult' = replaceBlockByMarker(mDoc, mName, mBlock)
    /\ mWarnings' = mWarnings + (IF replaceWarns(mDoc, mName) THEN 1 ELSE 0)
    /\ mPc' = "replaced"
    /\ UNCHANGED <<mDoc, mName, mBlock, mResult2, mExtract>>
    /\ UNCHANGED appVars

ReplaceAgain ==
    /\ mPc = "replaced"
    /\ mResult2' = replaceBlockByMarker(mResult, mName, mBlock)
    /\ mWarnings' = mWarnings + (IF replaceWarns(mResult, mName) THEN 1 ELSE 0)
    /\ mPc' = "replaced2"
    /\ UNCHANGED <<mDoc, mName, mBlock, mResult, mExtract>>
    /\ UNCHANGED appVars

ExtractReplaced ==
    /\ mPc = "replaced"
    /\ mExtract' = extractBlockByMarker(mResult, mName)
    /\ mPc' = "extracted"
    /\ UNCHANGED <<mDoc, mName, mBlock, mResult, mResult2, mWarnings>>
    /\ UNCHANGED appVars

\* extractBlockByMarker on the document as given
ExtractInput ==
    /\ mPc = "input"
    /\ mExtract' = extractBlockByMarker(mDoc, mName)
    /\ mPc' = "extractedInput"
    /\ UNCHANGED <<mDoc, mName, mBlock, mResult, mResult2, mWarnings>>
    /\ UNCHANGED appVars

NextMarker == ReplaceOnce \/ ReplaceAgain \/ ExtractReplaced \/ ExtractInput

SpecMarker == InitMarker /\ [][NextMarker]_vars

-----------------------------------------------------------------------------
(* The rewards builder exercised on bounded reward data *)

TierKeys == { "low", "standard", "premium" }

LevelChoices ==
    { <<>>,
      << [key |-> "critical", amount |-> "$100-$200"] >>,
      << [key |-> "critical", amount |-> "$100-$200"], [key |-> "high", amount |-> ""] >> }

TierChoices == { [key |-> k, levels |-> l] : k \in TierKeys, l \in LevelChoices }

\* an object has each key once
DistinctKeys(entries) ==
    \A i, j \in 1..Len(entries) : entries[i].key = entries[j].key => i = j

\* rewards.json as loaded: no object at all, or tiers, definitions and examples
RewardsInputs ==
    { [present |-> FALSE, tiers |-> <<>>, definitions |-> <<>>, examples |-> <<>>] }
        \cup { [present |-> TRUE, tiers |-> t, definitions |-> d, examples |-> e] :
                  t \in { q \in SeqsUpTo(TierChoices, MaxTiers) : DistinctKeys(q) },
                  d \in { <<>>, << [key |-> "critical", text |-> <<"Full compromise">>] >> },
                  e \in { <<>>, << [key |-> "critical", items |-> <<"RCE", "SQL injection">>] >> } }

\* values of localStorage.selectedRewardTier: none, a tier, a key of no tier
SavedTierKeys == { "", "low", "standard", "gold" }

InitRewards ==
    /\ mDoc = <<>>
    /\ mName = "REWARDS"
    /\ mBlock = <<>>
    /\ mPc = "input"
    /\ mResult = <<>>
    /\ mResult2 = <<>>
    /\ mExtract = <<>>
    /\ mWarnings = 0
    /\ scopeText = TemplateFull
    /\ rewards \in RewardsInputs
    /\ config \in ConfigChoices
    /\ storedApiData = EmptyMemory
    /\ localStorage \in { [EmptyStorage EXCEPT !.selectedRewardTier = k] : k \in SavedTierKeys }
    /\ websiteUrl = ""
    /\ currentStepIndex = BUILDER
    /\ edits = 0
    /\ last = <<>>
    /\ LoadIdle

GetRewardsTextForScope ==
    /\ mPc = "input"
    /\ mResult' = getRewardsTextForScope(rewards, localStorage.selectedRewardTier)
    /\ mPc' = "built"
    /\ UNCHANGED <<mDoc, mName, mBlock, mResult2, mExtract, mWarnings>>
    /\ UNCHANGED appVars

NextRewards == GetRewardsTextForScope

SpecRewards == InitRewards /\ [][NextRewards]_vars

-----------------------------------------------------------------------------
(* The assets aggregator exercised on bounded asset data *)

AndroidApp == [name |-> "Shop", platform |-> "Android", url |-> ""]

\* an app without a name on a platform that is neither iOS nor Android
WebApp == [name |-> "", platform |-> "Web", url |-> "https://m.example"]

\* storedApiData.mobileDetails: null, an object without apps, one app, two
\* apps, one app with an alternative for Android, one with an alternative
\* listed under iOS
MobileInputs ==
    { NoMobile,
      [NoMobile EXCEPT !.present = TRUE],
      OneApp,
      [OneApp EXCEPT !.suggested_apps = @ \o <<AndroidApp>>, !.suggested_name = "Shop"],
      [OneApp EXCEPT !.alternatives = [present |-> TRUE, iOS |-> <<>>, Android |-> <<AndroidApp>>]],
      [OneApp EXCEPT !.alternatives = [present |-> TRUE, iOS |-> <<WebApp>>, Android |-> <<>>]] }

\* an API the service described without a main page, with two documentation urls
PayApi ==
    [name |-> "Pay API", mainPage |-> "",
     documentationUrls |-> <<"https://pay.example/a", "https://pay.example/b">>]

\* storedApiData.apiDetails: null, an object without APIs, one API, one API
\* with an alternative, two APIs
ApiInputs ==
    { NoApi,
      [NoApi EXCEPT !.present = TRUE],
      OneApi,
      [OneApi EXCEPT !.alternativeApis =
          << [name |-> "", mainPage |-> "", documentationUrls |-> <<>>] >>],
      [OneApi EXCEPT !.suggestedApis = @ \o <<PayApi>>] }

\* window.config: the default, alternatives shown, not loaded
AssetsConfigs ==
    ConfigChoices
        \cup { [present |-> TRUE, suggestedAppsOnly |-> FALSE, suggestedApisOnly |-> "false"],
               [present |-> FALSE, suggestedAppsOnly |-> FALSE, suggestedApisOnly |-> ""] }

InitAssets ==
    /\ mDoc = <<>>
    /\ mName = "IN-SCOPE"
    /\ mBlock = <<>>
    /\ mPc = "input"
    /\ mResult = <<>>
    /\ mResult2 = <<>>
    /\ mExtract = <<>>
    /\ mWarnings = 0
    /\ scopeText = TemplateFull
    /\ rewards = RewardsTwoTiers
    /\ config \in AssetsConfigs
    /\ storedApiData \in { [EmptyMemory EXCEPT !.mobileDetails = mobile, !.apiDetails = api] :
                               mobile \in MobileInputs, api \in ApiInputs }
    /\ localStorage \in { [EmptyStorage EXCEPT !.enteredUrl = extractDomain(raw)] :
                              raw \in RawDomains \cup {""} }
    /\ websiteUrl = ""
    /\ currentStepIndex = BUILDER
    /\ edits = 0
    /\ last = <<>>
    /\ LoadIdle

BuildAssetsBlockForScope ==
    /\ mPc = "input"
    /\ mResult' = buildAssetsBlockForScope(storedApiData, localStorage.enteredUrl, config)
    /\ mPc' = "assets"
    /\ UNCHANGED <<mDoc, mName, mBlock, mResult2, mExtract, mWarnings>>
    /\ UNCHANGED appVars

FormatMobileDataForSummary ==
    /\ mPc = "input"
    /\ mResult' = formatMobileDataForSummary(storedApiData.mobileDetails, config)
    /\ mPc' = "mobile"
    /\ UNCHANGED <<mDoc, mName, mBlock, mResult2, mExtract, mWarnings>>
    /\ UNCHANGED appVars

FormatApiDataForSummary ==
    /\ mPc = "input"
    /\ mResult' = formatApiDataForSummary(storedApiData.apiDetails, config)
    /\ mPc' = "api"
    /\ UNCHANGED <<mDoc, mName, mBlock, mResult2, mExtract, mWarnings>>
    /\ UNCHANGED appVars

NextAssets ==
    \/ BuildAssetsBlockForScope
    \/ FormatMobileDataForSummary
    \/ FormatApiDataForSummary

SpecAssets == InitAssets /\ [][NextAssets]_vars

-----------------------------------------------------------------------------
(* The template loader exercised on bounded templates *)

\* entries of scope_text.json: paragraphs, lists, a list without items, an
\* entry of another type, null
TemplateBlocks ==
    { Paragraph(<<"Program scope">>),
      Paragraph(<<" ">>),
      Paragraph(<<"--START IN-SCOPE--", "--END IN-SCOPE--">>),
      List(<<>>),
      List(<<"No social engineering", "No denial of service">>),
      [List(<<>>) EXCEPT !.itemsIsArray = FALSE],
      [Paragraph(<<"Rules">>) EXCEPT !.type = "heading"],
      NullEntry }

\* window.scopeText: not loaded, or an array of up to MaxBlocks entries
TemplateInputs ==
    { TemplateNotLoaded }
        \cup { [isArray |-> TRUE, blocks |-> blocks] : blocks \in SeqsUpTo(TemplateBlocks, MaxBlocks) }

InitTemplate ==
    /\ mDoc = <<>>
    /\ mName = "IN-SCOPE"
    /\ mBlock = <<>>
    /\ mPc = "input"
    /\ mResult = <<>>
    /\ mResult2 = <<>>
    /\ mExtract = <<>>
    /\ mWarnings = 0
    /\ scopeText \in TemplateInputs
    /\ rewards = RewardsTwoTiers
    /\ config \in ConfigChoices
    /\ storedApiData = EmptyMemory
    /\ localStorage = EmptyStorage
    /\ websiteUrl = ""
    /\ currentStepIndex = BUILDER
    /\ edits = 0
    /\ last = <<>>
    /\ LoadIdle

\* a call of getScopeTextFromJSON(window.scopeText): it returns ("template")
\* or ends with a TypeError ("threw")
GetScopeTextFromJSON ==
    /\ mPc = "input"
    /\ IF getScopeTextFromJSONThrows(scopeText)
       THEN /\ mPc' = "threw"
            /\ mResult' = mResult
       ELSE /\ mPc' = "template"
            /\ mResult' = getScopeTextFromJSON(scopeText)
    /\ UNCHANGED <<mDoc, mName, mBlock, mResult2, mExtract, mWarnings>>
    /\ UNCHANGED appVars

NextTemplate == GetScopeTextFromJSON

SpecTemplate == InitTemplate /\ [][NextTemplate]_vars

-----------------------------------------------------------------------------
(* Properties of the marker engine *)

\* block is one START name ... END name span with no further marker of name
WellFormedSpan(block, sectionName) ==
    /\ Len(block) >= 2
    /\ MatchesIgnoreCase(block[1], StartMarker(sectionName))
    /\ MatchesIgnoreCase(block[Len(block)], EndMarker(sectionName))
    /\ \A i \in 2..(Len(block) - 1) : ~IsMarkerOf(block[i], sectionName)

HasRegion(html, sectionName) ==
    SpanTest(html, StartMarker(sectionName), EndMarker(sectionName))

\* the text around the span that replaceBlockByMarker replaces
BeforeMatch(html, sectionName) ==
    SubSeq(html, 1, PatternMatch(html, StartMarker(sectionName), EndMarker(sectionName)).from - 1)

AfterMatch(html, sectionName) ==
    SubSeq(html, PatternMatch(html, StartMarker(sectionName), EndMarker(sectionName)).to + 1, Len(html))

\* nothing the pattern would absorb is left directly around the replaced span:
\* no <p> right before it, no whitespace, <br> or </p> right after it
NothingLeftToAbsorb(html, sectionName) ==
    HasRegion(html, sectionName) =>
        LET before == BeforeMatch(html, sectionName)
            after  == AfterMatch(html, sectionName)
        IN  /\ (before = <<>> \/ before[Len(before)] # P_OPEN)
            /\ (after = <<>> \/ after[1] \notin WS \cup {BR, P_CLOSE})

-----------------------------------------------------------------------------
(* Properties of the assembler *)

\* the calls of the assembler made by the latest handler
Calls == { last[i] : i \in 1..Len(last) }

\* the START name ... END name span of a document (<<>> if it has none)
Region(html, sectionName) == extractBlockByMarker(html, sectionName)

\* C3: for a document holding both regions, the rewards patch of
\* displayScopePage leaves the IN-SCOPE region as it was, and the assets patch
\* of buildPartialScopeTextFromApi leaves the REWARDS region as it was.
C3_RegionIsolation ==
    \A c \in Calls :
        (HasRegion(c.before, "IN-SCOPE") /\ HasRegion(c.before, "REWARDS")) =>
            /\ c.op = "display" => Region(c.after, "IN-SCOPE") = Region(c.before, "IN-SCOPE")
            /\ c.op = "build"   => Region(c.after, "REWARDS") = Region(c.before, "REWARDS")

\* a handler on the FINAL page rebuilt the assets and then the rewards of a
\* document holding both regions, and both patches changed the document
C3_Witness ==
    /\ Len(last) = 2
    /\ last[1].op = "build" /\ last[1].branch = "replace"
    /\ last[2].op = "display" /\ last[2].branch = "replace"
    /\ HasRegion(last[1].before, "IN-SCOPE") /\ HasRegion(last[1].before, "REWARDS")
    /\ last[1].after # last[1].before
    /\ last[2].after # last[2].before
    /\ Region(last[2].after, "IN-SCOPE") = Region(last[1].after, "IN-SCOPE")
    /\ Region(last[1].after, "REWARDS") = Region(last[1].before, "REWARDS")

\* C4 (as stated): a call of the assembler whose merged output equals, after
\* trim, the document that was persisted before the call persists nothing;
\* two calls in succession with identical inputs write the document once.
C4_ChangeGating ==
    \A c \in Calls :
        (c.branch # "abort" /\ Trim(c.after) = Trim(c.stored)) => c.docWrites = 0

\* C6: when displayScopePage patches an existing document, the REWARDS region
\* is rebuilt (it is the freshly built block) if no tier is selected or the
\* selected tier differs from the last rendered one; otherwise the region is
\* left as it was, user edits inside it included.
C6_RewardsRebuildPolicy ==
    \A c \in Calls :
        (c.op = "display" /\ c.branch # "fallback") =>
            IF c.tier = "" \/ c.tier # c.tierBefore
            THEN Region(c.after, "REWARDS") = getRewardsTextForScope(rewards, c.tier)
            ELSE Region(c.after, "REWARDS") = Region(c.before, "REWARDS")

\* the page was displayed again with the tier that was rendered last, and the
\* text the user typed inside the REWARDS region is still there
C6_Witness ==
    /\ Len(last) = 1
    /\ last[1].op = "display"
    /\ last[1].tier # "" /\ last[1].tier = last[1].tierBefore
    /\ \E i \in 1..Len(Region(last[1].before, "REWARDS")) :
           Region(last[1].before, "REWARDS")[i] = "user text"
    /\ Region(last[1].after, "REWARDS") = Region(last[1].before, "REWARDS")
    /\ localStorage.finalScopeHTML = last[1].after

\* the part of html that starts at its START IN-SCOPE marker and is as long as block
Embedded(html, block) ==
    LET from == SpanMatch(html, "--START IN-SCOPE--", "--END IN-SCOPE--").from
        to   == from + Len(block) - 1
    IN  SubSeq(html, from, IF to > Len(html) THEN Len(html) ELSE to)

\* C7 (as stated): a build that finds a document with the IN-SCOPE region
\* replaces the region if and only if the domain changed since the last build
\* or the freshly built assets block differs from the one embedded in the
\* document; otherwise the document is kept.
C7_AssetsRebuildPolicy ==
    \A c \in Calls :
        (c.op = "build" /\ HasRegion(c.before, "IN-SCOPE")) =>
            /\ (c.branch = "replace") <=>
                   (c.urlChanged \/ Trim(Embedded(c.before, c.block)) # Trim(c.block))
            /\ c.branch # "replace" => c.after = c.before

NoMarkerOf(html, sectionName) ==
    \A i \in 1..Len(html) : ~IsMarkerOf(html[i], sectionName)

\* after is before with block inserted at some place, possibly after a line feed
InsertedInto(before, block, after) ==
    \E i \in 0..Len(before) : \E sep \in { <<>>, <<"\n">> } :
        after = SubSeq(before, 1, i) \o sep \o block \o SubSeq(before, i + 1, Len(before))

\* C8 (as stated): when the current document has no marker of the region a
\* call patches, the call keeps the document and inserts the freshly built
\* region into it (before the following section, or at the end).
C8_MissingRegionInserted ==
    \A c \in Calls :
        /\ (c.op = "build" /\ c.branch # "abort" /\ Truthy(c.before)
                /\ NoMarkerOf(c.before, "IN-SCOPE"))
              => InsertedInto(c.before, c.block, c.after)
        /\ (c.op = "display" /\ Truthy(c.before) /\ NoMarkerOf(c.before, "REWARDS")
                /\ (c.tier = "" \/ c.tier # c.tierBefore))
              => InsertedInto(c.before, c.block, c.after)

\* region a call patches: IN-SCOPE for a build, REWARDS for a display
PatchedRegion(c) == IF c.op = "build" THEN "IN-SCOPE" ELSE "REWARDS"

\* the document before and after the first START name ... END name span
Outside(html, sectionName) ==
    LET m == SpanMatch(html, StartMarker(sectionName), EndMarker(sectionName))
    IN  [pre |-> SubSeq(html, 1, m.from - 1), post |-> SubSeq(html, m.to + 1, Len(html))]

\* the document the latest handler persisted is the one its last call produced
PersistedLast ==
    Len(last) > 0 =>
        LET c == last[Len(last)]
        IN  /\ (c.op = "build" /\ c.branch # "abort") => localStorage.partialScopeHTML = c.after
            /\ (c.op = "display" /\ Truthy(c.after)) => localStorage.finalScopeHTML = c.after

\* C9 (as stated): a patch of region N leaves every part of the document
\* outside region N as it was: the patched document is the text before the
\* region, the new region, and the text after the region.
C9_OutsideRegionUntouched ==
    \A c \in Calls :
        (c.branch = "replace" /\ HasRegion(c.before, PatchedRegion(c))) =>
            c.after = Outside(c.before, PatchedRegion(c)).pre
                        \o Region(c.after, PatchedRegion(c))
                        \o Outside(c.before, PatchedRegion(c)).post

\* [i, j] is a span of html made of the region at [m.from, m.to] with, at
\* most, a <p> directly before it and whitespace, <br> and </p> directly after it
RegionWithWrappers(html, m, i, j) ==
    /\ i >= 1
    /\ i < m.from => html[i] = P_OPEN
    /\ \A n \in (m.to + 1)..j : html[n] \in WS \cup {BR, P_CLOSE}

\* C9 (amended): a patch of region N replaces one span of the document by the
\* new block, the span being region N with at most a <p> directly before it
\* and whitespace, <br> and </p> directly after it; everything outside that
\* span is left as it was and is in the document the handler persists.
C9_OutsideSpanUntouched ==
    /\ PersistedLast
    /\ \A c \in Calls :
          (c.branch = "replace" /\ HasRegion(c.before, PatchedRegion(c))) =>
              LET m == SpanMatch(c.before, StartMarker(PatchedRegion(c)),
                                 EndMarker(PatchedRegion(c)))
              IN  \E i \in {m.from - 1, m.from} : \E j \in m.to..Len(c.before) :
                      /\ RegionWithWrappers(c.before, m, i, j)
                      /\ c.after = SubSeq(c.before, 1, i - 1) \o c.block
                                      \o SubSeq(c.before, j + 1, Len(c.before))

\* a build changed the assets of a document that starts with text the user
\* typed, and the persisted document still starts with that text
C9_Witness ==
    /\ Len(last) = 1
    /\ last[1].op = "build" /\ last[1].branch = "replace"
    /\ last[1].before[1] = "user text"
    /\ last[1].after # last[1].before
    /\ localStorage.partialScopeHTML[1] = "user text"
    /\ localStorage.finalScopeHTML[1] = "user text"

Count(html, literal) == Cardinality(PositionsOf(html, literal))

\* region name occurs at most once in html, START before END
AtMostOnce(html, sectionName) ==
    /\ Count(html, StartMarker(sectionName)) <= 1
    /\ Count(html, EndMarker(sectionName)) = Count(html, StartMarker(sectionName))
    /\ \A i \in PositionsOf(html, StartMarker(sectionName)) :
          \A j \in PositionsOf(html, EndMarker(sectionName)) : i < j

\* no marker of one region lies inside the other region
NotNested(html, inner, outer) ==
    \A i \in PositionsOf(html, StartMarker(outer)) :
        \A j \in PositionsOf(html, EndMarker(outer)) :
            \A k \in i..j : ~IsMarkerOf(html[k], inner)

RegionsWellFormed(html) ==
    /\ AtMostOnce(html, "IN-SCOPE")
    /\ AtMostOnce(html, "REWARDS")
    /\ NotNested(html, "IN-SCOPE", "REWARDS")
    /\ NotNested(html, "REWARDS", "IN-SCOPE")

\* C10: starting from a template that holds each region once, every persisted
\* document holds each of IN-SCOPE and REWARDS at most once, START before its
\* END, and neither region inside the other.
C10_RegionUniqueness ==
    scopeText = TemplateFull =>
        /\ RegionsWellFormed(localStorage.partialScopeHTML)
        /\ RegionsWellFormed(localStorage.finalScopeHTML)
        /\ RegionsWellFormed(storedApiData.partialScopeHTML)
        /\ RegionsWellFormed(storedApiData.finalScopeHTML)

\* the FINAL page was displayed after a tier change; the final document holds
\* the fetched assets and the rewards of the new tier, each region once
C10_Witness ==
    /\ scopeText = TemplateFull
    /\ Len(last) = 1
    /\ last[1].op = "display" /\ last[1].branch = "replace"
    /\ last[1].tierBefore # "" /\ last[1].tier # last[1].tierBefore
    /\ last[1].after # last[1].before
    /\ \E i \in 1..Len(localStorage.finalScopeHTML) :
           localStorage.finalScopeHTML[i] = "MOBILE APP: Shop (Apple)"
    /\ Count(localStorage.finalScopeHTML, "--START IN-SCOPE--") = 1
    /\ Count(localStorage.finalScopeHTML, "--START REWARDS--") = 1
    /\ Count(localStorage.partialScopeHTML, "--START IN-SCOPE--") = 1
    /\ Count(localStorage.partialScopeHTML, "--START REWARDS--") = 1

-----------------------------------------------------------------------------
(* Properties of the rewards builder *)

TiersOf(rewardsData) == IF rewardsData.present THEN rewardsData.tiers ELSE <<>>

\* no tier is selected, or the selected key is not in the tiers mapping
NoTierSelected ==
    \/ localStorage.selectedRewardTier = ""
    \/ ~HasKey(TiersOf(rewards), localStorage.selectedRewardTier)

\* block is a REWARDS span
IsRewardsBlock(block) ==
    /\ block # <<>>
    /\ block[1] = "--START REWARDS--"
    /\ block[Len(block)] = "--END REWARDS--"

\* every level is shown with its label and the masked range, no amount is shown
LevelsMasked(block, levels) ==
    /\ Cardinality({ i \in 1..Len(block) : block[i] = MASKED_AMOUNT }) = Len(levels)
    /\ \A n \in 1..Len(levels) :
          /\ \E i \in 1..(Len(block) - 2) :
                /\ block[i] = Capitalize(levels[n].key)
                /\ block[i + 1] = ": "
                /\ block[i + 2] = MASKED_AMOUNT
          /\ \A i \in 1..Len(block) : block[i] # "$100-$200"

\* C5 (as stated): with no tier selected, getRewardsTextForScope returns a
\* non-empty REWARDS block for every reward data, an empty or missing tiers
\* mapping included, and every level of the first tier shows the masked range.
C5_PlaceholderForEveryRewards ==
    (mPc = "built" /\ NoTierSelected) =>
        /\ IsRewardsBlock(mResult)
        /\ TiersOf(rewards) # <<>> => LevelsMasked(mResult, TiersOf(rewards)[1].levels)

\* C5 (amended): with no tier selected and a tiers mapping that has at least
\* one tier, getRewardsTextForScope returns a non-empty REWARDS block in which
\* every level of the first tier shows the masked range and never its amount.
C5_Placeholder ==
    (mPc = "built" /\ NoTierSelected /\ TiersOf(rewards) # <<>>) =>
        /\ IsRewardsBlock(mResult)
        /\ LevelsMasked(mResult, TiersOf(rewards)[1].levels)

\* the saved key names no tier; the first of two tiers has a level with an
\* amount and a level with a blank amount, and both are shown masked
C5_Witness ==
    /\ mPc = "built"
    /\ localStorage.selectedRewardTier = "gold"
    /\ Len(TiersOf(rewards)) = 2
    /\ Len(TiersOf(rewards)[1].levels) = 2
    /\ IsRewardsBlock(mResult)
    /\ LevelsMasked(mResult, TiersOf(rewards)[1].levels)

-----------------------------------------------------------------------------
(* Properties of the assembler: the document a build leaves *)

\* C11 (as stated): after a build that does not abort, the document it
\* persisted holds exactly one IN-SCOPE region, and the region is the freshly
\* built assets block.
C11_OneFreshAssetsRegion ==
    \A c \in Calls :
        (c.op = "build" /\ c.branch # "abort") =>
            /\ HasRegion(c.after, "IN-SCOPE")
            /\ Count(c.after, "--START IN-SCOPE--") = 1
            /\ Count(c.after, "--END IN-SCOPE--") = 1
            /\ Embedded(c.after, c.block) = c.block
            /\ localStorage.partialScopeHTML = c.after

-----------------------------------------------------------------------------
(* Properties of the assembler: rendering the same tier again *)

\* the display found the tier it rendered last still selected
SameTierAgain(c) ==
    c.op = "display" /\ c.branch # "fallback" /\ c.tier # "" /\ c.tier = c.tierBefore

\* C12 (as stated): when the page is rendered again with the tier T that was
\* rendered last still selected, the REWARDS region is byte-identical to the
\* one of the first render and the last-rendered tier is not written again.
C12_SameTierRerender ==
    \A c \in Calls :
        SameTierAgain(c) =>
            /\ Region(c.after, "REWARDS") = Region(c.before, "REWARDS")
            /\ localStorage.lastRenderedRewardTier = c.tierBefore
            /\ c.tierWrites = 0

\* C13 (as stated): a load that was running when another domain was typed or
\* loaded wrote nothing, neither storedApiData nor the apiData_<domain> cache
\* nor the persisted document, and returned none of ok, partial, cached.
C13_StaleNeverPersisted ==
    \A k \in 1..Len(loads) :
        loads[k].superseded =>
            /\ loads[k].wrote = {}
            /\ loads[k].status \notin {"ok", "partial", "cached"}

\* the persisted document and the two pieces of tracking state
PersistedState ==
    <<localStorage.partialScopeHTML, localStorage.finalScopeHTML,
      localStorage.initialDomain, localStorage.lastRenderedRewardTier>>

\* C14 (as stated): the persisted document, the last-built domain and the
\* last-rendered tier change only in a step in which the assembler
\* (buildPartialScopeTextFromApi, displayScopePage) ran; every other action
\* leaves them unchanged.
C14_SingleWriter ==
    [][ PersistedState' # PersistedState => last' # <<>> ]_vars

\* C15 (as stated): whatever the template, the asset data, the reward data
\* and the persisted document are, buildPartialScopeTextFromApi and
\* displayScopePage return normally, and a display shows a document.
C15_AssemblerNeverThrows ==
    \A c \in Calls :
        /\ c.branch # "throw"
        /\ c.op = "display" => Truthy(c.after)

\* the document holds no START N ... END N span, whatever the case of the
\* markers
NoSpan(html, sectionName) ==
    ~\E i, j \in 1..Len(html) :
        /\ i < j
        /\ ToUpperCase(html[i]) = StartMarker(sectionName)
        /\ ToUpperCase(html[j]) = EndMarker(sectionName)

\* C16: replaceBlockByMarker on a document without a START N ... END N span
\* returns the document as it was and warns once.
C16_MissReturnsUnchanged ==
    (mPc = "replaced" /\ NoSpan(mDoc, mName)) =>
        /\ mResult = mDoc
        /\ mWarnings = 1

\* a document with a START marker that has no partner was left as it was
C16_Witness ==
    /\ mPc = "replaced"
    /\ NoSpan(mDoc, mName)
    /\ Includes(mDoc, "--START IN-SCOPE--")
    /\ mResult = mDoc
    /\ mWarnings = 1

\* positions of the START and of the END markers of a region, in either case
StartsOf(html, sectionName) ==
    { i \in 1..Len(html) : ToUpperCase(html[i]) = StartMarker(sectionName) }

EndsOf(html, sectionName) ==
    { j \in 1..Len(html) : ToUpperCase(html[j]) = EndMarker(sectionName) }

Min(S) == CHOOSE x \in S : \A y \in S : x <= y

\* the substring from the first START through the nearest END that follows
\* it; empty when there is no START or no END after the first START
FirstSpan(html, sectionName) ==
    IF StartsOf(html, sectionName) = {} THEN <<>>
    ELSE LET i      == Min(StartsOf(html, sectionName))
             behind == { j \in EndsOf(html, sectionName) : j > i }
         IN  IF behind = {} THEN <<>> ELSE SubSeq(html, i, Min(behind))

\* C17: extractBlockByMarker returns the substring from the first START N
\* through the nearest END N after it, markers matched in either case, and
\* the empty string when the document has no such pair.
C17_ExtractExact ==
    /\ mPc = "extractedInput" => mExtract = FirstSpan(mDoc, mName)
    /\ mPc = "extracted" => mExtract = FirstSpan(mResult, mName)

\* a lower-case START followed by two END markers: the extraction stops at
\* the first END
C17_Witness ==
    /\ mPc = "extractedInput"
    /\ mName = "IN-SCOPE"
    /\ mDoc = <<"--START in-scope--", "x", "--END IN-SCOPE--", "--END IN-SCOPE--">>
    /\ mExtract = <<"--START in-scope--", "x", "--END IN-SCOPE--">>

\* whitespace and line breaks
Artifacts == WS \cup {BR}

\* first position after j whose token is no artifact (Len + 1 if none)
AfterArtifacts(html, j) ==
    Min({ k \in (j + 1)..(Len(html) + 1) : k = Len(html) + 1 \/ html[k] \notin Artifacts })

\* the first START N and the nearest END N behind it
FirstStart(html, sectionName) == Min(StartsOf(html, sectionName))
FirstEnd(html, sectionName) ==
    Min({ j \in EndsOf(html, sectionName) : j > FirstStart(html, sectionName) })

\* a paragraph wrapper surrounds the markers: <p> directly before START and
\* </p> behind END, with nothing but artifacts between END and </p>
TightlyWrapped(html, sectionName) ==
    /\ ~NoSpan(html, sectionName)
    /\ FirstStart(html, sectionName) > 1
    /\ html[FirstStart(html, sectionName) - 1] = P_OPEN
    /\ AfterArtifacts(html, FirstEnd(html, sectionName)) <= Len(html)
    /\ html[AfterArtifacts(html, FirstEnd(html, sectionName))] = P_CLOSE

IsWrapperTag(tok) == tok \in {P_OPEN, P_CLOSE}

\* every <p> is closed by a </p> before the next <p>, and no </p> comes first
WellPaired(html) ==
    LET tags == SelectSeq(html, IsWrapperTag)
    IN  /\ Len(tags) % 2 = 0
        /\ \A n \in 1..Len(tags) : tags[n] = (IF n % 2 = 1 THEN P_OPEN ELSE P_CLOSE)

WebsiteFragment == formatWebsiteDataForSummary(localStorage.enteredUrl)
MobileFragment  == formatMobileDataForSummary(storedApiData.mobileDetails, config)
ApiFragment     == formatApiDataForSummary(storedApiData.apiDetails, config)

\* one spacer if there is something on both sides
Between(left, right) == IF left # <<>> /\ right # <<>> THEN SPACER ELSE <<>>

\* what stands between the heading and the paragraph of the END marker
AssetsBody(block) == SubSeq(block, 2 + Len(IN_SCOPE_HEADING), Len(block) - 3)

StartsWith(s, prefix) == Len(s) >= Len(prefix) /\ SubSeq(s, 1, Len(prefix)) = prefix
EndsWith(s, suffix) ==
    Len(s) >= Len(suffix) /\ SubSeq(s, Len(s) - Len(suffix) + 1, Len(s)) = suffix

\* C19: buildAssetsBlockForScope returns one IN-SCOPE region: the START
\* marker, the fixed heading, the non-empty Website, Mobile and API fragments
\* in that order with one spacer between neighbours and none first or last,
\* and the END marker; with no website, no apps and no APIs nothing stands
\* between the heading and the END marker.
C19_AssetsAggregator ==
    mPc = "assets" =>
        /\ StartsWith(mResult, <<"--START IN-SCOPE--">> \o IN_SCOPE_HEADING)
        /\ EndsWith(mResult, <<P_OPEN, "--END IN-SCOPE--", P_CLOSE>>)
        /\ Count(mResult, "--START IN-SCOPE--") = 1
        /\ Count(mResult, "--END IN-SCOPE--") = 1
        /\ AssetsBody(mResult) =
              WebsiteFragment \o Between(WebsiteFragment, MobileFragment \o ApiFragment)
              \o MobileFragment \o Between(MobileFragment, ApiFragment)
              \o ApiFragment
        /\ ~StartsWith(AssetsBody(mResult), SPACER)
        /\ ~EndsWith(AssetsBody(mResult), SPACER)
        /\ (WebsiteFragment = <<>> /\ MobileFragment = <<>> /\ ApiFragment = <<>>)
              => AssetsBody(mResult) = <<>>

\* a website and API data but no app: the two fragments with one spacer
\* between them
C19_Witness ==
    /\ mPc = "assets"
    /\ WebsiteFragment # <<>>
    /\ MobileFragment = <<>>
    /\ storedApiData.mobileDetails.present
    /\ ApiFragment # <<>>
    /\ AssetsBody(mResult) = WebsiteFragment \o SPACER \o ApiFragment

\* the levels of the selected tier
SelectedLevels == Lookup(TiersOf(rewards), localStorage.selectedRewardTier).levels

\* the severity lines of a rewards block: each one ends with </strong>
SeverityLines(block) == Count(block, "</strong>")

\* the block shows label followed by ": " and amount
ShowsAmount(block, label, amount) ==
    \E i \in 1..(Len(block) - 2) :
        /\ block[i] = label
        /\ block[i + 1] = ": "
        /\ block[i + 2] = amount

\* C20 (as stated): for a selected tier the rewards block has one severity
\* line for each level whose amount is not blank, showing the amount, and no
\* line for a level whose amount is blank.
C20_OneLinePerPricedLevel ==
    (mPc = "built" /\ ~NoTierSelected) =>
        /\ SeverityLines(mResult)
              = Cardinality({ n \in 1..Len(SelectedLevels) : SelectedLevels[n].amount # "" })
        /\ \A n \in 1..Len(SelectedLevels) :
              IF SelectedLevels[n].amount # ""
              THEN /\ Count(mResult, Capitalize(SelectedLevels[n].key)) = 1
                   /\ ShowsAmount(mResult, Capitalize(SelectedLevels[n].key),
                                  SelectedLevels[n].amount)
              ELSE Count(mResult, Capitalize(SelectedLevels[n].key)) = 0

-----------------------------------------------------------------------------
(* Properties of the block builders *)

\* the APIs formatApiDataForSummary is to show: the suggested ones, and the
\* alternatives when the flag suggestedApisOnly is off
ApisToShow ==
    IF ~storedApiData.apiDetails.present THEN <<>>
    ELSE storedApiData.apiDetails.suggestedApis
         \o (IF config.present /\ config.suggestedApisOnly = "false"
             THEN storedApiData.apiDetails.alternativeApis
             ELSE <<>>)

\* the lines of documentation of an entry: one url on the line of the label,
\* several urls on lines of their own after the label
DocLines(docs) ==
    IF Len(docs) = 0 THEN <<>>
    ELSE IF Len(docs) = 1 THEN << "<strong>Documentation:</strong> " \o docs[1] >>
    ELSE << "<strong>Documentation:</strong>" >> \o docs

\* the lines of an entry as the claim describes it: name, main url if there
\* is one, documentation
ApiLines(api) ==
    << "API: " \o (IF api.name # "" THEN api.name ELSE "Unknown API") >>
    \o (IF api.mainPage # "" THEN << "<strong>URL:</strong> " \o api.mainPage >> ELSE <<>>)
    \o DocLines(api.documentationUrls)

\* lines separated by line breaks inside one block
Block(lines) ==
    <<DIV_OPEN>> \o Join([i \in 1..Len(lines) |-> <<lines[i]>>], <<BR>>) \o <<DIV_CLOSE>>

\* C21 (as stated): formatApiDataForSummary gives one entry per suggested API
\* and one per alternative API only when the suggested-only flag is off, with
\* one spacer between entries; an entry has the line of the main url only if
\* the API has a main url, one documentation url on the line of the label and
\* several on lines of their own; without entries the result is empty.
C21_ApiEntries ==
    mPc = "api" =>
        mResult = Join([i \in 1..Len(ApisToShow) |-> Block(ApiLines(ApisToShow[i]))], SPACER)

\* the alternatives of the mobile data when the flag suggestedAppsOnly is off
AlternativesToShow ==
    IF (config.present /\ config.suggestedAppsOnly)
       \/ ~storedApiData.mobileDetails.alternatives.present
    THEN <<>>
    ELSE storedApiData.mobileDetails.alternatives.iOS
         \o storedApiData.mobileDetails.alternatives.Android

\* the app entries formatMobileDataForSummary is to show
AppsToShow ==
    IF ~storedApiData.mobileDetails.present THEN <<>>
    ELSE storedApiData.mobileDetails.suggested_apps \o AlternativesToShow

\* the name an entry is shown under: suggested apps carry the suggested name
ShownName(n) ==
    LET mobile == storedApiData.mobileDetails
        name   == IF n > Len(mobile.suggested_apps) THEN AppsToShow[n].name
                  ELSE IF mobile.suggested_name # "" THEN mobile.suggested_name
                  ELSE mobile.suggested_apps[1].name
    IN  IF name # "" THEN name ELSE "Unknown App"

PlatformLabel(platform) ==
    CASE platform = "iOS" -> " (Apple)"
      [] platform = "Android" -> " (Android)"
      [] OTHER -> ""

\* the lines of the n-th entry as the claim describes it
AppLines(n) ==
    << "MOBILE APP: " \o ShownName(n) \o PlatformLabel(AppsToShow[n].platform) >>
    \o (IF AppsToShow[n].url # ""
        THEN << "<strong>URL:</strong> " \o AppsToShow[n].url >>
        ELSE <<>>)
    \o << "<strong>Version:</strong> Current" >>

\* C22: formatMobileDataForSummary gives one block per app entry: every
\* suggested app, and the iOS and Android alternatives only when the
\* suggested-only flag is off; a block shows Apple for iOS, Android for
\* Android and no platform otherwise, and the url line only if the app has a
\* url; n entries are separated by n-1 spacers, none after the last; without
\* entries the result is empty.
C22_MobileEntries ==
    mPc = "mobile" =>
        /\ mResult = Join([n \in 1..Len(AppsToShow) |-> Block(AppLines(n))], SPACER)
        /\ Count(mResult, "<strong>Version:</strong> Current") = Len(AppsToShow)
        /\ AppsToShow = <<>> => mResult = <<>>
        /\ AppsToShow # <<>> =>
              /\ Count(mResult, "&nbsp;") = Len(AppsToShow) - 1
              /\ ~EndsWith(mResult, SPACER)

\* an iOS app with a url and an alternative without a name on another
\* platform, shown because the flag is off: two blocks and one spacer
C22_Witness ==
    /\ mPc = "mobile"
    /\ ~(config.present /\ config.suggestedAppsOnly)
    /\ Len(AppsToShow) = 2
    /\ AppsToShow[1].platform = "iOS"
    /\ AppsToShow[2].platform \notin {"iOS", "Android"}
    /\ mResult = Block(<<"MOBILE APP: Shop (Apple)", "<strong>URL:</strong> https://apps.example/shop",
                         "<strong>Version:</strong> Current">>)
                 \o SPACER
                 \o Block(<<"MOBILE APP: Unknown App", "<strong>URL:</strong> https://m.example",
                            "<strong>Version:</strong> Current">>)

-----------------------------------------------------------------------------
(* Properties of the template loader *)

\* a Template Block: a paragraph with a text or a list with items
IsParagraph(block) == block.type = "paragraph"
IsList(block)      == block.type = "list" /\ block.itemsIsArray

\* the items of a list, each in an item element, from the n-th on
RECURSIVE ItemsFrom(_, _)
ItemsFrom(items, n) ==
    IF n > Len(items) THEN <<>>
    ELSE <<"<li>", items[n], "</li>">> \o ItemsFrom(items, n + 1)

\* the blocks from the n-th on, each rendered as its kind asks, in their order
RECURSIVE RenderedFrom(_, _)
RenderedFrom(blocks, n) ==
    IF n > Len(blocks) THEN <<>>
    ELSE (IF IsParagraph(blocks[n])
          THEN <<P_OPEN>> \o blocks[n].text \o <<P_CLOSE>>
          ELSE <<"<ul>">> \o ItemsFrom(blocks[n].items, 1) \o <<"</ul>">>)
         \o RenderedFrom(blocks, n + 1)

\* the number of entries of all the lists of a template
RECURSIVE ItemCount(_, _)
ItemCount(blocks, n) ==
    IF n > Len(blocks) THEN 0
    ELSE (IF IsList(blocks[n]) THEN Len(blocks[n].items) ELSE 0) + ItemCount(blocks, n + 1)

\* C23: for a template of paragraph blocks and list blocks getScopeTextFromJSON
\* returns, trimmed, one wrapped paragraph with the literal text per paragraph
\* block and one list with one item per entry per list block, in the order of
\* the input; for an input that is not a sequence it returns the empty string
\* and does not throw.
C23_TemplateRendered ==
    /\ (mPc \in {"template", "threw"} /\ ~scopeText.isArray) =>
            (mPc = "template" /\ mResult = <<>>)
    /\ (/\ mPc \in {"template", "threw"}
        /\ scopeText.isArray
        /\ \A n \in 1..Len(scopeText.blocks) :
               IsParagraph(scopeText.blocks[n]) \/ IsList(scopeText.blocks[n])) =>
            /\ mPc = "template"
            /\ mResult = Trim(RenderedFrom(scopeText.blocks, 1))
            /\ Count(mResult, "<ul>")
                  = Cardinality({ n \in 1..Len(scopeText.blocks) : IsList(scopeText.blocks[n]) })
            /\ Count(mResult, "<li>") = ItemCount(scopeText.blocks, 1)

\* a paragraph, a list of two entries and a paragraph with markers, rendered
\* in that order
C23_Witness ==
    /\ mPc = "template"
    /\ Len(scopeText.blocks) = 3
    /\ mResult = <<P_OPEN, "Program scope", P_CLOSE,
                   "<ul>", "<li>", "No social engineering", "</li>",
                   "<li>", "No denial of service", "</li>", "</ul>",
                   P_OPEN, "--START IN-SCOPE--", "--END IN-SCOPE--", P_CLOSE>>

-----------------------------------------------------------------------------
(* Properties of the background loader and the domain input *)

\* the calls of loadApiDataInBackground that return in this step with one of
\* the given statuses: calls that were running, and calls that start and
\* return in the same step
Returning(statuses) ==
    { k \in 1..Len(loads') :
        /\ loads'[k].status \in statuses
        /\ (k <= Len(loads) => Running(loads[k])) }

\* details hold nothing, or what the services answer for the domain
OwnData(details, domain) ==
    /\ details.mobileDetails \in {NoMobile, MobileOf(domain)}
    /\ details.apiDetails \in {NoApi, ApiOf(domain)}

\* C24 (as stated): when a call of loadApiDataInBackground(D) returns ok,
\* partial or cached, storedApiData.mobileDetails and storedApiData.apiDetails
\* and the entry cached under apiData_D hold only data fetched or cached for
\* D, never data that a load of another domain left in memory.
C24_OnlyOwnData ==
    [][ \A k \in Returning({"ok", "partial", "cached"}) :
            /\ OwnData(storedApiData', loads'[k].domain)
            /\ apiCache'[loads'[k].domain].present
                  => OwnData(apiCache'[loads'[k].domain], loads'[k].domain) ]_vars

-----------------------------------------------------------------------------
(* Properties of the assembler: tiers, displays and resets *)

\* the call loaded a document into the editor
LoadedDocument(c) == c.op = "display" /\ c.branch # "throw"

\* C25 (as stated): when displayScopePage returns after loading a document
\* into the editor while a valid tier T is selected, and the user has not
\* edited the rewards region, the REWARDS region of the persisted
\* finalScopeHTML is the block built for T, after any sequence of tier
\* selections, builds, displays and resets.
C25_RewardsOfSelectedTier ==
    \A c \in Calls :
        (LoadedDocument(c) /\ HasKey(TiersOf(rewards), c.tier)) =>
            Region(localStorage.finalScopeHTML, "REWARDS")
                = getRewardsTextForScope(rewards, c.tier)

\* C26 (as stated): after every call of displayScopePage that loads a
\* document into the editor, the fallback path taken when no document is
\* persisted included, lastRenderedRewardTier is the selectedRewardTier the
\* render used (empty when none).
C26_TierTracked ==
    \A c \in Calls :
        LoadedDocument(c) => localStorage.lastRenderedRewardTier = c.tier

\* C30 (as stated): after performReset, from whichever step it was invoked,
\* the builder page is the step shown: currentStepIndex is 0.
C30_ResetShowsBuilder ==
    [][ PerformReset => currentStepIndex' = BUILDER ]_vars

-----------------------------------------------------------------------------
(* Properties of the domain input *)

\* the calls of loadAndProcessApiData that handleDomainInput started and that
\* have not returned
InFlight == { k \in 1..Len(loads) : Running(loads[k]) }

\* C27 (as stated): whatever the interleaving of Enter, debounced typing and
\* blur events, at most one call of loadAndProcessApiData started by
\* handleDomainInput is in flight at a time.
C27_OneLoadInFlight == Cardinality(InFlight) <= 1

\* C28 (as stated): lastProcessedValue becomes a domain only when the load of
\* that domain returns with a status other than aborted, stale or noop, and
\* a load that was superseded or aborted never changes lastProcessedValue.
C28_ProcessedOnlyWhenCurrent ==
    [][ /\ lastProcessedValue' # lastProcessedValue =>
              \E k \in Returning({"ok", "partial", "cached", "error"}) :
                  lastProcessedValue' = loads'[k].domain
        /\ \A k \in Returning({"ok", "partial", "cached", "error", "aborted", "stale"}) :
              (loads'[k].superseded \/ loads'[k].status \in {"aborted", "stale"}) =>
                  lastProcessedValue' = lastProcessedValue ]_vars

\* a call of loadAndProcessApiData returns in this step, so the finally block
\* of handleDomainInput runs
FinallyRuns == Returning({"ok", "partial", "cached", "error", "aborted", "stale"}) # {}

\* handleDomainInput was invoked with the domain and went on to check it
Invoked(domain) ==
    /\ resolving' # <<>>
    /\ resolving'[Len(resolving')] = domain
    /\ localStorage'.enteredUrl = domain

\* handleDomainInput is called with the value of the input while it is
\* processing, and the domain is not the one processed last
CalledWhileProcessing ==
    /\ TypingStopped \/ EnterPressed \/ InputBlurred
    /\ isProcessing
    /\ extractDomain(websiteUrl) \notin {"", lastProcessedValue}

\* C29: a domain entered while handleDomainInput is processing another one
\* is queued in pendingDomain and does not stay there: the queue is
\* emptied in the end; when the running load returns, the queue is emptied
\* and handleDomainInput is invoked with the domain queued last unless it
\* is lastProcessedValue; and once no load is running isProcessing is false
\* and pendingDomain is empty.
C29_PendingIsProcessed ==
    /\ [](InFlight = {} => (~isProcessing /\ pendingDomain = ""))
    /\ [][ CalledWhileProcessing => pendingDomain' = extractDomain(websiteUrl) ]_vars
    /\ [][ (FinallyRuns /\ pendingDomain # "") =>
              /\ pendingDomain' = ""
              /\ pendingDomain # lastProcessedValue' => Invoked(pendingDomain) ]_vars
    /\ (pendingDomain # "") ~> (pendingDomain = "")

\* b.com was typed while a.com was being loaded and is queued
C29_Witness ==
    /\ isProcessing
    /\ pendingDomain = "b.com"
    /\ \E k \in InFlight : loads[k].domain = "a.com"

=============================================================================
